---- MODULE Spec2Model ----
(***************************************************************************)
(* Transaction ledger and CSV import of the stock tracker backend.         *)
(*                                                                         *)
(* Money is counted in cents (integers).  Columns declared Numeric(10, 2)  *)
(* hold whole cents: a value written to such a column is rounded to two    *)
(* fractional digits by the database (PostgreSQL numeric: half away from   *)
(* zero) and read back rounded by db.refresh().  Python Decimal values     *)
(* that never reach a column (total_cost of the replay) are exact          *)
(* rationals here; the 28-digit Decimal context rounds them only beyond    *)
(* the 26th fractional digit, far below the cent at the modelled sizes.    *)
(* Dates are day numbers; 0 stands for NULL.  Input prices are whole       *)
(* cents, written with 2 or more fractional digits.                        *)
(***************************************************************************)
EXTENDS Integers, Sequences, FiniteSets, TLC

\* ------------------------------------------------------------------ bounds
MaxQty == 2
MaxPrice == 2
MaxDate == 2
MaxTx == 2
MaxCalls == 3
MaxHistory == 4
MaxRows == 2
MaxCsvTx == 2
MaxCsvQty == 2
MaxScale == 3
MaxHeaders == 6
MaxGroups == 3

\* --------------------------------------------------------------- constants
PriceScale == 2

Tickers == {"WEGE3", "XPTO3"}
STOCKS_B3 == {"WEGE3"}
TransTypes == {"buy", "sell"}
NoDate == 0

Quantities == 1..MaxQty
Prices == 1..MaxPrice
Dates == 1..MaxDate
Scales == PriceScale..MaxScale
CsvPrices == {1}
CsvDates == {1}

\* The two requests that may be in flight at once, each with its own session.
Sessions == {"a", "b"}

\* ------------------------------------------------------------- arithmetic
Abs(n) == IF n < 0 THEN -n ELSE n

RECURSIVE Gcd(_, _)
Gcd(a, b) == IF b = 0 THEN a ELSE Gcd(b, a % b)

\* A rational as <<numerator, denominator>>, denominator > 0, in lowest terms.
Rat(n, d) ==
    LET s == IF d < 0 THEN -1 ELSE 1
        g == Gcd(Abs(n), Abs(d))
    IN  IF n = 0 THEN <<0, 1>> ELSE <<(s * n) \div g, (s * d) \div g>>

RatAdd(r, n) == Rat(r[1] + n * r[2], r[2])
RatMul(r, n) == Rat(r[1] * n, r[2])
RatDiv(r, n) == Rat(r[1], r[2] * n)

\* Numeric(10, 2) column write: n/d cents rounded to whole cents.
NumericRound(n, d) ==
    LET s == IF (n < 0) # (d < 0) THEN -1 ELSE 1
    IN  s * ((2 * Abs(n) + Abs(d)) \div (2 * Abs(d)))

\* ------------------------------------------------------------------ state
VARIABLES
    stocks,                 \* committed rows of table stocks (tickers)
    transactions,           \* committed rows of table transactions, in id order
    portfolio,              \* committed rows of table portfolio, per ticker
    response,               \* outcome of the last finished request
    pc,                     \* position of the running import: idle, rows, done
    skip_duplicates,        \* import_csv argument
    create_missing_stocks,  \* import_csv argument
    line_no,                \* line number of the row import_csv handled last
    row,                    \* that row, parsed, and how its handling ended
    result,                 \* the ImportResult being built
    processed_transactions, \* duplicate keys seen in this run
    session_new,            \* Transaction objects added to the session, uncommitted
    session_stocks,         \* Stock rows flushed by the session, uncommitted
    session_ok,             \* FALSE once a storage failure left the session unusable
    sessions,               \* the requests in flight, each with its own session
    content                 \* the file of the running import

vars == <<stocks, transactions, portfolio, response, pc, skip_duplicates,
          create_missing_stocks, line_no, row, result, processed_transactions,
          session_new, session_stocks, session_ok, sessions, content>>

dbVars == <<stocks, transactions, portfolio>>
runVars == <<pc, skip_duplicates, create_missing_stocks, line_no, row, result,
             processed_transactions, session_new, session_stocks, session_ok,
             sessions, content>>

\* ------------------------------------------------------------ data model
Transaction(stock, type, quantity, price, date) ==
    [stock |-> stock, type |-> type, quantity |-> quantity,
     price |-> price, date |-> date]

Portfolio(quantity, average_price, first_buy_date) ==
    [quantity |-> quantity, average_price |-> average_price,
     first_buy_date |-> first_buy_date]

TransactionCreate ==
    {Transaction(s, ty, q, p, d) :
        s \in Tickers, ty \in TransTypes, q \in Quantities, p \in Prices, d \in Dates}

NoTrans ==
    [ticker |-> "", type |-> "", quantity |-> 0, price |-> 0, scale |-> 0,
     date |-> NoDate]

NoRow == [kind |-> "none", trans |-> NoTrans, outcome |-> "none"]

ImportResult ==
    [success_count |-> 0, error_count |-> 0, skipped_count |-> 0,
     errors |-> <<>>, warnings |-> <<>>, created_stocks |-> <<>>]

\* The file of an import: the number of rows csv.reader yields, header
\* included, and the roles detect_format_and_map_columns maps to a column.
Content(rows, column_map) == [rows |-> rows, column_map |-> column_map]

NoContent == Content(0, {})

\* A request in flight: the operation, the statement it executes next, the
\* transaction it creates or has deleted, and what its session has loaded:
\* txs, the stock's transactions (replay only); seen, the Portfolio rows of
\* the stock; stale, whether the loaded row has since been deleted.
Request(op, at, t, txs, seen) ==
    [op |-> op, pc |-> at, t |-> t, txs |-> txs, seen |-> seen, stale |-> FALSE]

NoRequest == Request("none", "idle", Transaction("", "", 0, 0, NoDate), <<>>, <<>>)

\* ---------------------------------------------------- process_transaction
\* The Portfolio row process_transaction writes for an accepted transaction;
\* held is the sequence of portfolio rows of the stock (<<>> or one row).
BuyAverage(old_total, total_value, new_quantity) ==
    NumericRound(old_total + total_value, new_quantity)

\* A buy whose cost includes the fees of the transaction.
ApplyBuyWithFees(held, t) ==
    IF held # <<>>
    THEN LET old_total == held[1].average_price * held[1].quantity
             new_quantity == held[1].quantity + t.quantity
         IN  Portfolio(new_quantity,
                       BuyAverage(old_total, t.price * t.quantity + t.fees,
                                  new_quantity),
                       held[1].first_buy_date)
    ELSE Portfolio(t.quantity, t.price, t.date)

ApplyBuy(held, t) ==
    IF held # <<>>
    THEN LET old_total == held[1].average_price * held[1].quantity
             new_quantity == held[1].quantity + t.quantity
         IN  Portfolio(new_quantity,
                       BuyAverage(old_total, t.price * t.quantity, new_quantity),
                       held[1].first_buy_date)
    ELSE Portfolio(t.quantity, t.price, t.date)

ApplySell(held, t) ==
    LET new_quantity == held[1].quantity - t.quantity
    IN  Portfolio(new_quantity,
                  IF new_quantity = 0 THEN 0 ELSE held[1].average_price,
                  held[1].first_buy_date)

\* How process_transaction ends: "ok", ValueError (insufficient shares) or
\* the DivisionByZero of new_total / new_quantity.
InsufficientSharesNoRowOnly(held, t) ==
    t.type = "sell" /\ held = <<>>

InsufficientShares(held, t) ==
    t.type = "sell" /\ (held = <<>> \/ held[1].quantity < t.quantity)

ZeroDivision(held, t) ==
    t.type = "buy" /\ held # <<>> /\ held[1].quantity + t.quantity = 0

Outcome(held, t) ==
    IF InsufficientShares(held, t) THEN "ValueError"
    ELSE IF ZeroDivision(held, t) THEN "ZeroDivision"
    ELSE "ok"

process_transaction(held, t) ==
    IF t.type = "buy" THEN <<ApplyBuy(held, t)>> ELSE <<ApplySell(held, t)>>

\* The Transaction Processor rules applied to a list from the empty state:
\* the portfolio rows reached, and whether every transaction was accepted.
RECURSIVE ProcessorFold(_)
ProcessorFold(seq) ==
    IF seq = <<>> THEN [held |-> <<>>, ok |-> TRUE]
    ELSE LET f == ProcessorFold(SubSeq(seq, 1, Len(seq) - 1))
             t == seq[Len(seq)]
         IN  IF Outcome(f.held, t) = "ok"
             THEN [held |-> process_transaction(f.held, t), ok |-> f.ok]
             ELSE [held |-> f.held, ok |-> FALSE]

\* ------------------------------- recalculate_portfolio_from_transactions
\* ORDER BY Transaction.date, Transaction.id of a sequence kept in id order.
RECURSIVE InsertByDate(_, _)
InsertByDate(sorted, t) ==
    IF sorted = <<>> THEN <<t>>
    ELSE IF sorted[Len(sorted)].date <= t.date THEN Append(sorted, t)
    ELSE Append(InsertByDate(SubSeq(sorted, 1, Len(sorted) - 1), t),
                sorted[Len(sorted)])

RECURSIVE OrderByDateId(_)
OrderByDateId(seq) ==
    IF seq = <<>> THEN <<>>
    ELSE InsertByDate(OrderByDateId(SubSeq(seq, 1, Len(seq) - 1)), seq[Len(seq)])

OfStock(seq, stock) == SelectSeq(seq, LAMBDA t : t.stock = stock)

ReplayStart == [quantity |-> 0, total_cost |-> <<0, 1>>, first_buy_date |-> NoDate]

ReplaySellKeepCost(acc, t) ==
    [acc EXCEPT !.quantity = acc.quantity - t.quantity]

ReplaySell(acc, t) ==
    LET quantity == acc.quantity - t.quantity
    IN  [acc EXCEPT !.quantity = quantity,
                    !.total_cost =
                        IF quantity > 0
                        THEN RatMul(RatDiv(acc.total_cost, quantity + t.quantity),
                                    quantity)
                        ELSE acc.total_cost]

ReplayBuy(acc, t) ==
    [quantity |-> acc.quantity + t.quantity,
     total_cost |-> RatAdd(acc.total_cost, t.price * t.quantity),
     first_buy_date |-> IF acc.first_buy_date = NoDate THEN t.date
                        ELSE acc.first_buy_date]

ReplayStep(acc, t) ==
    IF t.type = "buy" THEN ReplayBuy(acc, t) ELSE ReplaySell(acc, t)

RECURSIVE ReplayLoop(_)
ReplayLoop(seq) ==
    IF seq = <<>> THEN ReplayStart
    ELSE ReplayStep(ReplayLoop(SubSeq(seq, 1, Len(seq) - 1)), seq[Len(seq)])

ReplayAverage(acc) ==
    IF acc.quantity > 0
    THEN NumericRound(acc.total_cost[1], acc.total_cost[2] * acc.quantity)
    ELSE 0

\* The portfolio rows of the stock after the replay of its committed
\* transactions: none when there is no transaction left.
recalculate_portfolio_from_transactions(txs, stock) ==
    LET ordered == OrderByDateId(OfStock(txs, stock))
        acc == ReplayLoop(ordered)
    IN  IF ordered = <<>> THEN <<>>
        ELSE <<Portfolio(acc.quantity, ReplayAverage(acc), acc.first_buy_date)>>

\* ------------------------------------------------------------------- Init
Init ==
    /\ stocks = STOCKS_B3
    /\ transactions = <<>>
    /\ portfolio = [s \in Tickers |-> <<>>]
    /\ response = "none"
    /\ pc = "idle"
    /\ skip_duplicates = TRUE
    /\ create_missing_stocks = TRUE
    /\ line_no = 1
    /\ row = NoRow
    /\ result = ImportResult
    /\ processed_transactions = {}
    /\ session_new = <<>>
    /\ session_stocks = {}
    /\ session_ok = TRUE
    /\ sessions = [s \in Sessions |-> NoRequest]
    /\ content = NoContent

\* ------------------------------------------------ POST /portfolio/transaction
\* create_transaction with a transaction process_transaction accepts.
CreateTransactionUpTo(t, limit) ==
    /\ pc = "idle"
    /\ t.stock \in stocks
    /\ Len(transactions) < limit
    /\ Outcome(portfolio[t.stock], t) = "ok"
    /\ transactions' = Append(transactions, t)
    /\ portfolio' = [portfolio EXCEPT ![t.stock] = process_transaction(@, t)]
    /\ response' = "201"
    /\ UNCHANGED <<stocks, runVars>>

CreateTransaction(t) == CreateTransactionUpTo(t, MaxTx)

\* create_transaction ending in an error: unknown ticker (404), ValueError
\* (400) or an unhandled DivisionByZero (500).  The request's session is
\* closed without a commit, which drops the Transaction it had added.
get_db_close == UNCHANGED dbVars

CreateTransactionNotFound(ticker) ==
    /\ pc = "idle"
    /\ ticker \notin stocks
    /\ response' = "404"
    /\ get_db_close
    /\ UNCHANGED runVars

\* The requests for a known ticker that process_transaction ends with the
\* given outcome.  Every one of them leaves the same state behind, so one
\* step stands for all of them.
RequestsEnding(outcome) ==
    {t \in TransactionCreate :
        t.stock \in stocks /\ Outcome(portfolio[t.stock], t) = outcome}

CreateTransactionFails ==
    /\ pc = "idle"
    /\ RequestsEnding("ValueError") # {}
    /\ response' = "400"
    /\ get_db_close
    /\ UNCHANGED runVars

CreateTransactionCrashes ==
    /\ pc = "idle"
    /\ RequestsEnding("ZeroDivision") # {}
    /\ response' = "500"
    /\ get_db_close
    /\ UNCHANGED runVars

\* -------------------------------- DELETE /portfolio/transaction/{id}
RemoveAt(seq, i) == SubSeq(seq, 1, i - 1) \o SubSeq(seq, i + 1, Len(seq))

delete_transaction(n) ==
    /\ pc = "idle"
    /\ n \in 1..Len(transactions)
    /\ LET stock == transactions[n].stock
           remaining == RemoveAt(transactions, n)
       IN  /\ transactions' = remaining
           /\ portfolio' = [portfolio EXCEPT
                  ![stock] = recalculate_portfolio_from_transactions(remaining, stock)]
    /\ response' = "204"
    /\ UNCHANGED <<stocks, runVars>>

\* ------------------------------------------------- transactions with fees
\* TransactionCreate.fees (ge=0) is stored on the Transaction row.  Requests
\* of one trade date, with and without a fee of one cent.
Fees == {0, 1}

WithFees(t, fees) ==
    [stock |-> t.stock, type |-> t.type, quantity |-> t.quantity,
     price |-> t.price, date |-> t.date, fees |-> fees]

FeeRequests ==
    {WithFees(t, fees) : t \in {c \in TransactionCreate : c.date = 1},
                         fees \in Fees}

\* ----------------------------------------- a replay that follows no deletion
\* A replay that adds the replayed quantity to the stored one.
ReplayWriteAdds(held, acc) ==
    IF held # <<>>
    THEN <<[held[1] EXCEPT !.quantity = @ + acc.quantity,
                           !.average_price = ReplayAverage(acc),
                           !.first_buy_date = acc.first_buy_date]>>
    ELSE <<Portfolio(acc.quantity, ReplayAverage(acc), acc.first_buy_date)>>

\* The row the replay leaves when transactions remain: the loaded row with
\* its three columns assigned, or a new row.
ReplayWrite(held, acc) ==
    IF held # <<>>
    THEN <<[held[1] EXCEPT !.quantity = acc.quantity,
                           !.average_price = ReplayAverage(acc),
                           !.first_buy_date = acc.first_buy_date]>>
    ELSE <<Portfolio(acc.quantity, ReplayAverage(acc), acc.first_buy_date)>>

\* recalculate_portfolio_from_transactions called for a stock as it stands.
ReplayAlone(stock) ==
    LET ordered == OrderByDateId(OfStock(transactions, stock))
    IN  /\ pc = "idle"
        /\ stock \in stocks
        /\ portfolio' = [portfolio EXCEPT
               ![stock] = IF ordered = <<>> THEN <<>>
                          ELSE ReplayWrite(@, ReplayLoop(ordered))]
        /\ response' = "replay"
        /\ UNCHANGED <<stocks, transactions, runVars>>

\* ------------------------------------------- requests in separate sessions
\* The statements of create_transaction and delete_transaction, one step per
\* round trip to the database, for requests that overlap.  No statement
\* takes a lock (no with_for_update) and portfolio.stock_id is not unique.
\* A SELECT sees what is committed when it runs; the writes of a request are
\* flushed by its commit().  The flush writes the attributes whose value
\* differs from the loaded one, and raises StaleDataError when the UPDATE
\* matches no row.
Idle(s) == sessions[s].pc = "idle"

InFlight(op) == {s \in Sessions : sessions[s].op = op}

End(s) == [sessions EXCEPT ![s] = NoRequest]

\* scalar_one_or_none() on the stock's Portfolio rows.
MultipleResultsFound(stock) == Len(portfolio[stock]) > 1

\* The loaded row disappears: sessions that hold it find out at their flush.
MarkStale(ss, stock) ==
    [o \in Sessions |->
        IF ss[o].t.stock = stock /\ ss[o].seen # <<>>
        THEN [ss[o] EXCEPT !.stale = TRUE] ELSE ss[o]]

\* UPDATE portfolio SET <the written columns> WHERE id = <the loaded row>.
Flush(current, computed, columns) ==
    [c \in DOMAIN current |-> IF c \in columns THEN computed[c] ELSE current[c]]

\* The columns process_transaction assigns a value other than the loaded one.
ProcessColumns(held, t) ==
    {"quantity"} \cup
    IF t.type = "buy"
    THEN IF held[1].average_price * held[1].quantity + t.price * t.quantity
              # held[1].average_price * (held[1].quantity + t.quantity)
         THEN {"average_price"} ELSE {}
    ELSE IF held[1].quantity - t.quantity = 0 /\ held[1].average_price # 0
         THEN {"average_price"} ELSE {}

\* Requests of one price and one trade date, and those of them for one
\* share: none of the three decides how two requests interleave.
ConcurrentRequests == {t \in TransactionCreate : t.price = 1 /\ t.date = 1}

SingleShareRequests == {t \in ConcurrentRequests : t.quantity = 1}

\* Overlapping requests can raise the stored quantity without end (a buy
\* that loaded the row before a replay lowered it writes the old quantity
\* plus its own).  Buys are taken while the quantity stays within what limit
\* transactions can hold, which no serial run exceeds.
Drift(t, limit) ==
    (t.type = "buy" /\ portfolio[t.stock] # <<>>) =>
        portfolio[t.stock][1].quantity + t.quantity <= MaxQty * limit

\* create_transaction up to the SELECT of process_transaction.
SelectPortfolio(s, t, limit) ==
    /\ Idle(s)
    /\ t.stock \in stocks
    /\ Len(transactions) + Cardinality(InFlight("create")) < limit
    /\ ~MultipleResultsFound(t.stock)
    /\ Drift(t, limit)
    /\ sessions' = [sessions EXCEPT
           ![s] = Request("create", "commit", t, <<>>, portfolio[t.stock])]
    /\ UNCHANGED <<dbVars, response, pc, content, skip_duplicates,
                   create_missing_stocks,
                   line_no, row, result, processed_transactions, session_new,
                   session_stocks, session_ok>>

\* A SELECT of the Portfolio row that finds two rows: create_transaction
\* ends with an unhandled MultipleResultsFound.
SelectPortfolioFails(s) ==
    /\ Idle(s)
    /\ \E stock \in stocks : MultipleResultsFound(stock)
    /\ response' = "500"
    /\ get_db_close
    /\ UNCHANGED runVars

\* process_transaction from db.add(transaction) to db.commit().
CommitTransaction(s) ==
    LET r == sessions[s]
        how == Outcome(r.seen, r.t)
        computed == process_transaction(r.seen, r.t)[1]
        lost == r.seen # <<>> /\ r.stale
    IN  /\ r.op = "create"
        /\ r.pc = "commit"
        /\ sessions' = End(s)
        /\ IF how = "ok" /\ ~lost
           THEN /\ transactions' = Append(transactions, r.t)
                /\ portfolio' = [portfolio EXCEPT
                       ![r.t.stock] =
                           IF r.seen = <<>> THEN Append(@, computed)
                           ELSE [@ EXCEPT
                                    ![1] = Flush(@, computed,
                                                 ProcessColumns(r.seen, r.t))]]
                /\ response' = "201"
           ELSE /\ UNCHANGED <<transactions, portfolio>>
                /\ response' = IF how = "ValueError" THEN "400" ELSE "500"
        /\ UNCHANGED <<stocks, pc, content, skip_duplicates,
                       create_missing_stocks, line_no,
                       row, result, processed_transactions, session_new,
                       session_stocks, session_ok>>

\* The columns the replay assigns a value other than the loaded one.
ReplayColumns(held, acc) ==
    (IF acc.quantity # held[1].quantity THEN {"quantity"} ELSE {})
    \cup
    (IF (IF acc.quantity > 0
         THEN acc.total_cost[1]
                  # held[1].average_price * acc.total_cost[2] * acc.quantity
         ELSE held[1].average_price # 0)
     THEN {"average_price"} ELSE {})
    \cup
    (IF acc.first_buy_date # held[1].first_buy_date THEN {"first_buy_date"} ELSE {})

\* delete_transaction up to its db.commit(): the Transaction row is gone.
DeleteCommit(s, n) ==
    /\ Idle(s)
    /\ n \in 1..Len(transactions)
    /\ transactions' = RemoveAt(transactions, n)
    /\ sessions' = [sessions EXCEPT
           ![s] = Request("delete", "transactions", transactions[n], <<>>, <<>>)]
    /\ UNCHANGED <<stocks, portfolio, response, pc, content, skip_duplicates,
                   create_missing_stocks, line_no, row, result,
                   processed_transactions, session_new, session_stocks, session_ok>>

\* The replay's SELECT of the stock's transactions, ORDER BY date, id.
ReplaySelectTransactions(s) ==
    /\ sessions[s].op = "delete"
    /\ sessions[s].pc = "transactions"
    /\ sessions' = [sessions EXCEPT
           ![s].pc = "portfolio",
           ![s].txs = OrderByDateId(OfStock(transactions, sessions[s].t.stock))]
    /\ UNCHANGED <<dbVars, response, pc, content, skip_duplicates,
                   create_missing_stocks,
                   line_no, row, result, processed_transactions, session_new,
                   session_stocks, session_ok>>

\* The replay's SELECT of the Portfolio row; with two rows it raises, and
\* delete_transaction ends after its deletion was committed.
ReplaySelectPortfolio(s) ==
    LET stock == sessions[s].t.stock
    IN  /\ sessions[s].op = "delete"
        /\ sessions[s].pc = "portfolio"
        /\ IF MultipleResultsFound(stock)
           THEN /\ sessions' = End(s)
                /\ response' = "500"
           ELSE /\ sessions' = [sessions EXCEPT ![s].pc = "commit",
                                                ![s].seen = portfolio[stock]]
                /\ UNCHANGED response
        /\ UNCHANGED <<dbVars, pc, content, skip_duplicates,
                       create_missing_stocks, line_no,
                       row, result, processed_transactions, session_new,
                       session_stocks, session_ok>>

\* A replay that, finding no transaction, keeps the row at quantity zero.
ReplayCommitKeepsRow(s) ==
    LET r == sessions[s]
        stock == r.t.stock
        acc == ReplayLoop(r.txs)
        computed == Portfolio(acc.quantity, ReplayAverage(acc), acc.first_buy_date)
        columns == IF r.seen = <<>> THEN {} ELSE ReplayColumns(r.seen, acc)
    IN  /\ r.op = "delete"
        /\ r.pc = "commit"
        /\ IF r.txs = <<>>
           THEN IF r.seen # <<>> /\ ~r.stale
                THEN /\ portfolio' = [portfolio EXCEPT
                            ![stock] = [@ EXCEPT
                                ![1] = Portfolio(0, 0, @.first_buy_date)]]
                     /\ sessions' = End(s)
                     /\ response' = "204"
                ELSE /\ UNCHANGED portfolio
                     /\ sessions' = End(s)
                     /\ response' = "204"
           ELSE IF r.seen = <<>>
                THEN /\ portfolio' = [portfolio EXCEPT ![stock] = Append(@, computed)]
                     /\ sessions' = End(s)
                     /\ response' = "204"
                ELSE IF columns # {} /\ r.stale
                THEN /\ UNCHANGED portfolio
                     /\ sessions' = End(s)
                     /\ response' = "500"
                ELSE /\ portfolio' = [portfolio EXCEPT
                            ![stock] = IF columns = {} THEN @
                                       ELSE [@ EXCEPT
                                               ![1] = Flush(@, computed, columns)]]
                     /\ sessions' = End(s)
                     /\ response' = "204"
        /\ UNCHANGED <<stocks, transactions, pc, content, skip_duplicates,
                       create_missing_stocks, line_no, row, result,
                       processed_transactions, session_new, session_stocks,
                       session_ok>>

\* The replay from its loop to db.commit().
ReplayCommit(s) ==
    LET r == sessions[s]
        stock == r.t.stock
        acc == ReplayLoop(r.txs)
        computed == Portfolio(acc.quantity, ReplayAverage(acc), acc.first_buy_date)
        columns == IF r.seen = <<>> THEN {} ELSE ReplayColumns(r.seen, acc)
    IN  /\ r.op = "delete"
        /\ r.pc = "commit"
        /\ IF r.txs = <<>>
           THEN IF r.seen # <<>> /\ ~r.stale
                THEN /\ portfolio' = [portfolio EXCEPT ![stock] = Tail(@)]
                     /\ sessions' = MarkStale(End(s), stock)
                     /\ response' = "204"
                ELSE /\ UNCHANGED portfolio
                     /\ sessions' = End(s)
                     /\ response' = "204"
           ELSE IF r.seen = <<>>
                THEN /\ portfolio' = [portfolio EXCEPT ![stock] = Append(@, computed)]
                     /\ sessions' = End(s)
                     /\ response' = "204"
                ELSE IF columns # {} /\ r.stale
                THEN /\ UNCHANGED portfolio
                     /\ sessions' = End(s)
                     /\ response' = "500"
                ELSE /\ portfolio' = [portfolio EXCEPT
                            ![stock] = IF columns = {} THEN @
                                       ELSE [@ EXCEPT
                                               ![1] = Flush(@, computed, columns)]]
                     /\ sessions' = End(s)
                     /\ response' = "204"
        /\ UNCHANGED <<stocks, transactions, pc, content, skip_duplicates,
                       create_missing_stocks, line_no, row, result,
                       processed_transactions, session_new, session_stocks,
                       session_ok>>

\* create_transaction while no other request is in flight.
CreateTransactionAlone(t) ==
    /\ \A s \in Sessions : Idle(s)
    /\ CreateTransaction(t)

\* ------------------------------------------------------------ header row
\* A text is the sequence of its characters.  An accented letter is one
\* character, written as the letter and its accent ("c_cedilla", "a_tilde").  A column index counts from 1; NoColumn is None.
NoColumn == 0

Upper == <<"A", "B", "C", "D", "E", "F", "G", "H", "I", "J", "K", "L", "M",
           "N", "O", "P", "Q", "R", "S", "T", "U", "V", "W", "X", "Y", "Z">>

Lower == <<"a", "b", "c", "d", "e", "f", "g", "h", "i", "j", "k", "l", "m",
           "n", "o", "p", "q", "r", "s", "t", "u", "v", "w", "x", "y", "z">>

lower(c) ==
    IF \E i \in 1..Len(Upper) : Upper[i] = c
    THEN Lower[CHOOSE i \in 1..Len(Upper) : Upper[i] = c]
    ELSE c

RECURSIVE strip(_)
strip(s) ==
    IF s = <<>> THEN s
    ELSE IF Head(s) = " " THEN strip(Tail(s))
    ELSE IF s[Len(s)] = " " THEN strip(SubSeq(s, 1, Len(s) - 1))
    ELSE s

replacements ==
    ("a_acute" :> "a") @@ ("a_grave" :> "a") @@ ("a_tilde" :> "a") @@ ("a_circ" :> "a") @@ ("a_uml" :> "a") @@
    ("e_acute" :> "e") @@ ("e_grave" :> "e") @@ ("e_circ" :> "e") @@ ("e_uml" :> "e") @@ ("i_acute" :> "i") @@
    ("i_grave" :> "i") @@ ("i_circ" :> "i") @@ ("i_uml" :> "i") @@ ("o_acute" :> "o") @@ ("o_grave" :> "o") @@
    ("o_tilde" :> "o") @@ ("o_circ" :> "o") @@ ("o_uml" :> "o") @@ ("u_acute" :> "u") @@ ("u_grave" :> "u") @@
    ("u_circ" :> "u") @@ ("u_uml" :> "u") @@ ("c_cedilla" :> "c") @@ ("n_tilde" :> "n")

normalize_string(s) ==
    IF s = <<>> THEN <<>>
    ELSE LET stripped == strip([i \in 1..Len(s) |-> lower(s[i])])
         IN  [i \in 1..Len(stripped) |->
                 IF stripped[i] \in DOMAIN replacements
                 THEN replacements[stripped[i]] ELSE stripped[i]]

\* a in b, for two texts.
In(a, b) ==
    \E i \in 0..(Len(b) - Len(a)) : SubSeq(b, i + 1, i + Len(a)) = a

COLUMN_MAPPINGS ==
    <<
     [format |-> "b3_area_investidor",
      mappings |-> <<
          [field |-> "ticker",
           names |-> <<
                 <<"c", "o_acute", "d", "i", "g", "o", " ", "n", "e", "g", "o", "c", "i", "a", "c_cedilla", "a_tilde", "o">>,
                 <<"c", "o", "d", "i", "g", "o", " ", "n", "e", "g", "o", "c", "i", "a", "c", "a", "o">>,
                 <<"t", "i", "c", "k", "e", "r">>,
                 <<"c", "o_acute", "d", "i", "g", "o">>,
                 <<"c", "o", "d", "i", "g", "o">>,
                 <<"a", "t", "i", "v", "o">>,
                 <<"p", "a", "p", "e", "l">>>>],
          [field |-> "type",
           names |-> <<
                 <<"t", "i", "p", "o", " ", "m", "o", "v", "i", "m", "e", "n", "t", "a", "c_cedilla", "a_tilde", "o">>,
                 <<"t", "i", "p", "o", " ", "m", "o", "v", "i", "m", "e", "n", "t", "a", "c", "a", "o">>,
                 <<"m", "o", "v", "i", "m", "e", "n", "t", "a", "c_cedilla", "a_tilde", "o">>,
                 <<"m", "o", "v", "i", "m", "e", "n", "t", "a", "c", "a", "o">>,
                 <<"t", "i", "p", "o">>,
                 <<"c", "/", "v">>,
                 <<"o", "p", "e", "r", "a", "c_cedilla", "a_tilde", "o">>,
                 <<"o", "p", "e", "r", "a", "c", "a", "o">>>>],
          [field |-> "quantity",
           names |-> <<
                 <<"q", "u", "a", "n", "t", "i", "d", "a", "d", "e">>,
                 <<"q", "t", "d">>,
                 <<"q", "t", "d", "e">>,
                 <<"q", "t">>>>],
          [field |-> "price",
           names |-> <<
                 <<"p", "r", "e", "c_cedilla", "o">>,
                 <<"p", "r", "e", "c", "o">>,
                 <<"p", "r", "e", "c_cedilla", "o", " ", "u", "n", "i", "t", "a_acute", "r", "i", "o">>,
                 <<"p", "r", "e", "c", "o", " ", "u", "n", "i", "t", "a", "r", "i", "o">>,
                 <<"v", "a", "l", "o", "r", " ", "u", "n", "i", "t", "a_acute", "r", "i", "o">>,
                 <<"v", "a", "l", "o", "r", " ", "u", "n", "i", "t", "a", "r", "i", "o">>,
                 <<"p", "r", "e", "c_cedilla", "o", "/", "a", "j", "u", "s", "t", "e">>,
                 <<"p", "r", "e", "c", "o", "/", "a", "j", "u", "s", "t", "e">>>>],
          [field |-> "date",
           names |-> <<
                 <<"d", "a", "t", "a">>,
                 <<"d", "a", "t", "a", " ", "d", "o", " ", "n", "e", "g", "o_acute", "c", "i", "o">>,
                 <<"d", "a", "t", "a", " ", "d", "o", " ", "n", "e", "g", "o", "c", "i", "o">>,
                 <<"d", "a", "t", "a", " ", "n", "e", "g", "o_acute", "c", "i", "o">>,
                 <<"d", "a", "t", "a", " ", "n", "e", "g", "o", "c", "i", "o">>,
                 <<"d", "a", "t", "a", " ", "p", "r", "e", "g", "a_tilde", "o">>,
                 <<"d", "a", "t", "a", " ", "p", "r", "e", "g", "a", "o">>,
                 <<"d", "a", "t", "a", " ", "l", "i", "q", "u", "i", "d", "a", "c_cedilla", "a_tilde", "o">>,
                 <<"d", "a", "t", "a", " ", "l", "i", "q", "u", "i", "d", "a", "c", "a", "o">>>>],
          [field |-> "fees",
           names |-> <<
                 <<"t", "a", "x", "a", "s">>,
                 <<"t", "a", "x", "a">>,
                 <<"c", "o", "r", "r", "e", "t", "a", "g", "e", "m">>,
                 <<"e", "m", "o", "l", "u", "m", "e", "n", "t", "o", "s">>,
                 <<"c", "u", "s", "t", "o", "s">>>>]>>],
     [format |-> "corretora",
      mappings |-> <<
          [field |-> "ticker",
           names |-> <<
                 <<"e", "s", "p", "e", "c", "i", "f", "i", "c", "a", "c_cedilla", "a_tilde", "o", " ", "d", "o", " ", "t", "i_acute", "t", "u", "l", "o">>,
                 <<"e", "s", "p", "e", "c", "i", "f", "i", "c", "a", "c", "a", "o", " ", "d", "o", " ", "t", "i", "t", "u", "l", "o">>,
                 <<"t", "i_acute", "t", "u", "l", "o">>,
                 <<"t", "i", "t", "u", "l", "o">>,
                 <<"p", "a", "p", "e", "l">>,
                 <<"a", "t", "i", "v", "o">>,
                 <<"c", "o_acute", "d", "i", "g", "o">>,
                 <<"c", "o", "d", "i", "g", "o">>>>],
          [field |-> "type",
           names |-> <<
                 <<"c", "/", "v">>,
                 <<"c", "o", "m", "p", "r", "a", "/", "v", "e", "n", "d", "a">>,
                 <<"t", "i", "p", "o">>,
                 <<"n", "a", "t", "u", "r", "e", "z", "a">>,
                 <<"o", "p", "e", "r", "a", "c_cedilla", "a_tilde", "o">>,
                 <<"o", "p", "e", "r", "a", "c", "a", "o">>>>],
          [field |-> "quantity",
           names |-> <<
                 <<"q", "u", "a", "n", "t", "i", "d", "a", "d", "e">>,
                 <<"q", "t", "d">>,
                 <<"q", "t", "d", "e">>,
                 <<"q", "t">>,
                 <<"q">>>>],
          [field |-> "price",
           names |-> <<
                 <<"p", "r", "e", "c_cedilla", "o", "/", "a", "j", "u", "s", "t", "e">>,
                 <<"p", "r", "e", "c", "o", "/", "a", "j", "u", "s", "t", "e">>,
                 <<"p", "r", "e", "c_cedilla", "o">>,
                 <<"p", "r", "e", "c", "o">>,
                 <<"v", "a", "l", "o", "r">>>>],
          [field |-> "date",
           names |-> <<
                 <<"d", "a", "t", "a", " ", "p", "r", "e", "g", "a_tilde", "o">>,
                 <<"d", "a", "t", "a", " ", "p", "r", "e", "g", "a", "o">>,
                 <<"d", "a", "t", "a">>,
                 <<"d", "t", " ", "p", "r", "e", "g", "a_tilde", "o">>,
                 <<"d", "t", " ", "p", "r", "e", "g", "a", "o">>>>],
          [field |-> "fees",
           names |-> <<
                 <<"t", "a", "x", "a", " ", "o", "p", "e", "r", "a", "c", "i", "o", "n", "a", "l">>,
                 <<"c", "o", "r", "r", "e", "t", "a", "g", "e", "m">>,
                 <<"e", "m", "o", "l", "u", "m", "e", "n", "t", "o", "s">>,
                 <<"t", "a", "x", "a", "s">>>>]>>],
     [format |-> "generic",
      mappings |-> <<
          [field |-> "ticker",
           names |-> <<
                 <<"t", "i", "c", "k", "e", "r">>,
                 <<"a", "t", "i", "v", "o">>,
                 <<"p", "a", "p", "e", "l">>,
                 <<"c", "o_acute", "d", "i", "g", "o">>,
                 <<"c", "o", "d", "i", "g", "o">>,
                 <<"s", "y", "m", "b", "o", "l">>,
                 <<"s", "t", "o", "c", "k">>,
                 <<"a", "c", "a", "o">>,
                 <<"a", "c_cedilla", "a_tilde", "o">>>>],
          [field |-> "type",
           names |-> <<
                 <<"t", "i", "p", "o">>,
                 <<"t", "y", "p", "e">>,
                 <<"o", "p", "e", "r", "a", "c_cedilla", "a_tilde", "o">>,
                 <<"o", "p", "e", "r", "a", "c", "a", "o">>,
                 <<"c", "/", "v">>,
                 <<"c", "o", "m", "p", "r", "a", "/", "v", "e", "n", "d", "a">>,
                 <<"o", "p", "e", "r", "a", "t", "i", "o", "n">>,
                 <<"s", "i", "d", "e">>>>],
          [field |-> "quantity",
           names |-> <<
                 <<"q", "u", "a", "n", "t", "i", "d", "a", "d", "e">>,
                 <<"q", "t", "d">>,
                 <<"q", "t", "d", "e">>,
                 <<"q", "u", "a", "n", "t", "i", "t", "y">>,
                 <<"q", "t", "y">>,
                 <<"q", "t">>,
                 <<"q">>>>],
          [field |-> "price",
           names |-> <<
                 <<"p", "r", "e", "c_cedilla", "o">>,
                 <<"p", "r", "e", "c", "o">>,
                 <<"p", "r", "i", "c", "e">>,
                 <<"v", "a", "l", "o", "r">>,
                 <<"v", "a", "l", "u", "e">>,
                 <<"p", "r", "e", "c_cedilla", "o", " ", "u", "n", "i", "t", "a_acute", "r", "i", "o">>,
                 <<"p", "r", "e", "c", "o", " ", "u", "n", "i", "t", "a", "r", "i", "o">>>>],
          [field |-> "date",
           names |-> <<
                 <<"d", "a", "t", "a">>,
                 <<"d", "a", "t", "e">>,
                 <<"d", "a", "t", "a", " ", "o", "p", "e", "r", "a", "c_cedilla", "a_tilde", "o">>,
                 <<"d", "a", "t", "a", " ", "o", "p", "e", "r", "a", "c", "a", "o">>,
                 <<"d", "t">>>>],
          [field |-> "fees",
           names |-> <<
                 <<"t", "a", "x", "a", "s">>,
                 <<"t", "a", "x", "a">>,
                 <<"f", "e", "e", "s">>,
                 <<"f", "e", "e">>,
                 <<"c", "o", "r", "r", "e", "t", "a", "g", "e", "m">>,
                 <<"c", "u", "s", "t", "o", "s">>>>],
          [field |-> "notes",
           names |-> <<
                 <<"o", "b", "s", "e", "r", "v", "a", "c_cedilla", "o_tilde", "e", "s">>,
                 <<"o", "b", "s", "e", "r", "v", "a", "c", "o", "e", "s">>,
                 <<"n", "o", "t", "a", "s">>,
                 <<"n", "o", "t", "e", "s">>,
                 <<"o", "b", "s">>>>]>>]
    >>

\* The first of the possible names, in their order, that is part of a
\* header or has a header as a part; of the headers it matches, the first.
RECURSIVE find_column_from(_, _, _)
find_column_from(normalized_headers, possible_names, k) ==
    IF k > Len(possible_names) THEN NoColumn
    ELSE LET normalized_name == normalize_string(possible_names[k])
             hits == {i \in 1..Len(normalized_headers) :
                         \/ In(normalized_name, normalized_headers[i])
                         \/ In(normalized_headers[i], normalized_name)}
         IN  IF hits # {} THEN CHOOSE i \in hits : \A j \in hits : i <= j
             ELSE find_column_from(normalized_headers, possible_names, k + 1)

find_column(headers, possible_names) ==
    find_column_from([i \in 1..Len(headers) |-> normalize_string(headers[i])],
                     possible_names, 1)

\* temp_map of one format: the fields that resolve, each with its column.
temp_map(mappings, headers) ==
    LET idx == [k \in 1..Len(mappings) |-> find_column(headers, mappings[k].names)]
        found == {k \in 1..Len(mappings) : idx[k] # NoColumn}
    IN  [field \in {mappings[k].field : k \in found} |->
            idx[CHOOSE k \in found : mappings[k].field = field]]

ImportFormat(format_name) ==
    IF format_name = "b3_area_investidor" THEN "B3_AREA_INVESTIDOR"
    ELSE IF format_name = "corretora" THEN "CLEAR"
    ELSE "GENERIC"

required == {"ticker", "type", "quantity", "price", "date"}

\* A later format replaces the best one on an equal score too.
BetterOrEqual(score, best_score) == score >= best_score

Better(score, best_score) == score > best_score

\* detect_format_and_map_columns after the first k formats.
RECURSIVE detect_loop(_, _)
detect_loop(headers, k) ==
    IF k = 0
    THEN [best_format |-> "GENERIC", best_score |-> 0,
          column_map |-> [field \in {} |-> NoColumn]]
    ELSE LET best == detect_loop(headers, k - 1)
             map == temp_map(COLUMN_MAPPINGS[k].mappings, headers)
             score == Cardinality(DOMAIN map)
             has_required == required \subseteq DOMAIN map
         IN  IF has_required /\ Better(score, best.best_score)
             THEN [best_format |-> ImportFormat(COLUMN_MAPPINGS[k].format),
                   best_score |-> score, column_map |-> map]
             ELSE best

detect_format_and_map_columns(headers) ==
    detect_loop(headers, Len(COLUMN_MAPPINGS))

\* Header rows: the cells of one export, some of its columns left out.  The
\* first cell is the empty header of an index column.
HeaderCells ==
    << <<>>,
       <<"A", "t", "i", "v", "o">>,
       <<"C", "o_acute", "d", "i", "g", "o">>,
       <<"T", "i", "p", "o">>,
       <<"Q", "u", "a", "n", "t", "i", "d", "a", "d", "e">>,
       <<"P", "r", "e", "c_cedilla", "o">>,
       <<"D", "a", "t", "a">>,
       <<"T", "a", "x", "a", "s">> >>

Columns(S) ==
    LET kept == SelectSeq([i \in 1..Len(HeaderCells) |-> i], LAMBDA i : i \in S)
    IN  [j \in 1..Len(kept) |-> HeaderCells[kept[j]]]

HeaderRows ==
    {Columns(S) : S \in {T \in SUBSET (1..Len(HeaderCells)) :
                            Cardinality(T) <= MaxHeaders}}

\* A file by its header row and its number of rows, with what
\* detect_format_and_map_columns returns for the header row.
FileContent(headers, rows, detected) ==
    [rows |-> rows, column_map |-> DOMAIN detected.column_map,
     headers |-> headers, format |-> detected.best_format,
     columns |-> detected.column_map]

FileContents ==
    UNION {LET detected == detect_format_and_map_columns(headers)
           IN  {FileContent(headers, rows, detected) : rows \in 1..MaxRows} :
           headers \in HeaderRows}

\* ------------------------------------------------------------- import_csv
\* A parsed data row; str(trans.price) keeps the digits the cell was written
\* with, so the price is the pair of its value in cents and its scale.
ParsedTransaction(ticker, type, quantity, price, scale, date) ==
    [ticker |-> ticker, type |-> type, quantity |-> quantity,
     price |-> price, scale |-> scale, date |-> date]

\* Files whose price cells are all written with two fractional digits, and
\* files that also write them with more.
ParsedRows ==
    {ParsedTransaction(s, ty, q, p, PriceScale, d) :
        s \in Tickers, ty \in TransTypes, q \in 1..MaxCsvQty,
        p \in CsvPrices, d \in CsvDates}

ParsedRowsText ==
    {ParsedTransaction(s, ty, q, p, sc, d) :
        s \in Tickers, ty \in TransTypes, q \in 1..MaxCsvQty,
        p \in CsvPrices, sc \in Scales, d \in CsvDates}

trans_key(trans) ==
    <<trans.ticker, trans.type, trans.quantity, <<trans.price, trans.scale>>,
      trans.date>>

AsTransaction(trans) ==
    Transaction(trans.ticker, trans.type, trans.quantity, trans.price, trans.date)

LineNo == line_no + 1

Handled(kind, trans, outcome) ==
    /\ line_no' = LineNo
    /\ row' = [kind |-> kind, trans |-> trans, outcome |-> outcome]

\* Duplicate detection that also looks at the stored transactions.
IsDuplicateOfStored(trans) ==
    skip_duplicates /\
        (\/ trans_key(trans) \in processed_transactions
         \/ \E i \in 1..Len(transactions) : transactions[i] = AsTransaction(trans))

IsDuplicate(trans) ==
    skip_duplicates /\ trans_key(trans) \in processed_transactions

\* get_or_create_stock: the tickers it has to insert (and flush) for the row.
get_or_create_stock(ticker) ==
    IF ticker \in stocks \cup session_stocks THEN {} ELSE {ticker}

SeqOfSet(S) == IF S = {} THEN <<>> ELSE <<CHOOSE x \in S : TRUE>>

Contents ==
    {Content(n, m) : n \in 0..(MaxRows + 1), m \in {{}, required}}

\* Early returns that test the number of rows only.
FatalInputEmptyOnly(c) ==
    IF c.rows < 2 THEN "Arquivo vazio ou sem dados" ELSE "none"

\* The early returns of import_csv.
FatalInput(c) ==
    IF c.rows < 2 THEN "Arquivo vazio ou sem dados"
    ELSE IF c.column_map = {} \/ Cardinality(c.column_map) < 5
    THEN "colunas obrigatorias"
    ELSE "none"

\* import_csv up to the row loop.
ImportStart(c, sd, cms) ==
    /\ pc = "idle"
    /\ FatalInput(c) = "none"
    /\ pc' = "rows"
    /\ content' = c
    /\ skip_duplicates' = sd
    /\ create_missing_stocks' = cms
    /\ line_no' = 1
    /\ row' = NoRow
    /\ result' = [ImportResult EXCEPT
           !.warnings = <<[line |-> 0, warning |-> "Formato detectado"],
                          [line |-> 0, warning |-> "Colunas mapeadas"]>>]
    /\ processed_transactions' = {}
    /\ session_new' = <<>>
    /\ session_stocks' = {}
    /\ session_ok' = TRUE
    /\ response' = "none"
    /\ UNCHANGED <<dbVars, sessions>>

\* import_csv returning before the row loop: fewer than two rows, or a
\* header that does not resolve the required columns.
ImportFatalInput(c) ==
    /\ pc = "idle"
    /\ FatalInput(c) # "none"
    /\ pc' = "done"
    /\ content' = c
    /\ result' = [ImportResult EXCEPT
           !.errors = <<[line |-> 0, error |-> FatalInput(c)]>>]
    /\ line_no' = 1
    /\ row' = NoRow
    /\ processed_transactions' = {}
    /\ response' = "none"
    /\ UNCHANGED <<dbVars, sessions, skip_duplicates, create_missing_stocks,
                   session_new, session_stocks, session_ok>>

\* for i, row in enumerate(rows[1:], start=2): a row is left to handle.
InLoop == pc = "rows" /\ line_no < content.rows

ImportBlankRow ==
    /\ InLoop
    /\ Handled("blank", NoTrans, "blank")
    /\ UNCHANGED <<dbVars, sessions, content, response, pc, skip_duplicates,
                   create_missing_stocks,
                   result, processed_transactions, session_new, session_stocks,
                   session_ok>>

\* A row that does not parse ends the loop.
ImportInvalidRowStops ==
    /\ InLoop
    /\ Handled("invalid", NoTrans, "error")
    /\ result' = [result EXCEPT
           !.errors = Append(@, [line |-> LineNo, error |-> "parse"]),
           !.error_count = @ + 1]
    /\ pc' = "done"
    /\ UNCHANGED <<dbVars, sessions, content, response, skip_duplicates,
                   create_missing_stocks,
                   processed_transactions, session_new, session_stocks, session_ok>>

\* parse_row returned an error for the row.
ImportInvalidRow ==
    /\ InLoop
    /\ Handled("invalid", NoTrans, "error")
    /\ result' = [result EXCEPT
           !.errors = Append(@, [line |-> LineNo, error |-> "parse"]),
           !.error_count = @ + 1]
    /\ UNCHANGED <<dbVars, sessions, content, response, pc, skip_duplicates,
                   create_missing_stocks,
                   processed_transactions, session_new, session_stocks, session_ok>>

\* A repeated row that is set aside without being counted.
ImportDuplicateRowUncounted(trans) ==
    /\ InLoop
    /\ IsDuplicate(trans)
    /\ Handled("trans", trans, "skipped")
    /\ result' = [result EXCEPT
           !.warnings = Append(@, [line |-> LineNo, warning |-> "duplicada"])]
    /\ UNCHANGED <<dbVars, sessions, content, response, pc, skip_duplicates,
                   create_missing_stocks,
                   processed_transactions, session_new, session_stocks, session_ok>>

ImportDuplicateRow(trans) ==
    /\ InLoop
    /\ IsDuplicate(trans)
    /\ Handled("trans", trans, "skipped")
    /\ result' = [result EXCEPT
           !.skipped_count = @ + 1,
           !.warnings = Append(@, [line |-> LineNo, warning |-> "duplicada"])]
    /\ UNCHANGED <<dbVars, sessions, content, response, pc, skip_duplicates,
                   create_missing_stocks,
                   processed_transactions, session_new, session_stocks, session_ok>>

\* The row reaches process_transaction, which commits the session: the row's
\* Transaction and Portfolio change, and whatever the session still held.
ImportRowApplied(trans) ==
    /\ InLoop
    /\ ~IsDuplicate(trans)
    /\ session_ok
    /\ Len(transactions) + Len(session_new) < MaxCsvTx
    /\ LET t == AsTransaction(trans)
           created == get_or_create_stock(trans.ticker)
       IN  /\ Outcome(portfolio[t.stock], t) = "ok"
           /\ processed_transactions' = processed_transactions \cup {trans_key(trans)}
           /\ transactions' = (transactions \o session_new) \o <<t>>
           /\ stocks' = (stocks \cup session_stocks) \cup created
           /\ portfolio' = [portfolio EXCEPT ![t.stock] = process_transaction(@, t)]
           /\ session_new' = <<>>
           /\ session_stocks' = {}
           /\ result' = [result EXCEPT
                  !.created_stocks = @ \o SeqOfSet(created),
                  !.success_count = @ + 1]
    /\ Handled("trans", trans, "applied")
    /\ UNCHANGED <<sessions, content, response, pc, skip_duplicates,
                   create_missing_stocks, session_ok>>

\* process_transaction raises after db.add(transaction): ValueError for an
\* uncovered sell, DivisionByZero for a buy that brings the quantity to 0.
\* import_csv records the row error; nothing rolls the session back.
ImportRowRejected(trans) ==
    /\ InLoop
    /\ ~IsDuplicate(trans)
    /\ session_ok
    /\ Len(transactions) + Len(session_new) < MaxCsvTx
    /\ LET t == AsTransaction(trans)
           created == get_or_create_stock(trans.ticker)
       IN  /\ Outcome(portfolio[t.stock], t) # "ok"
           /\ processed_transactions' = processed_transactions \cup {trans_key(trans)}
           /\ session_new' = Append(session_new, t)
           /\ session_stocks' = session_stocks \cup created
           /\ result' = [result EXCEPT
                  !.created_stocks = @ \o SeqOfSet(created),
                  !.errors = Append(@, [line |-> LineNo,
                                        error |-> Outcome(portfolio[t.stock], t)]),
                  !.error_count = @ + 1]
    /\ Handled("trans", trans, "rejected")
    /\ UNCHANGED <<dbVars, sessions, content, response, pc, skip_duplicates,
                   create_missing_stocks,
                   session_ok>>

\* The storage fails inside process_transaction: the exception is caught as
\* a row error, and the session refuses further work until rolled back.
ImportRowStorageError(trans) ==
    /\ InLoop
    /\ ~IsDuplicate(trans)
    /\ session_ok
    /\ LET created == get_or_create_stock(trans.ticker)
       IN  /\ processed_transactions' = processed_transactions \cup {trans_key(trans)}
           /\ session_stocks' = session_stocks \cup created
           /\ result' = [result EXCEPT
                  !.created_stocks = @ \o SeqOfSet(created),
                  !.errors = Append(@, [line |-> LineNo, error |-> "Erro ao salvar"]),
                  !.error_count = @ + 1]
    /\ session_ok' = FALSE
    /\ Handled("trans", trans, "failed")
    /\ UNCHANGED <<dbVars, sessions, content, response, pc, skip_duplicates,
                   create_missing_stocks,
                   session_new>>

\* The fatal path: except Exception of import_csv, reached when the storage
\* fails in get_or_create_stock or is asked to work on an unusable session.
Rollback ==
    /\ session_new' = <<>>
    /\ session_stocks' = {}
    /\ session_ok' = TRUE
    /\ UNCHANGED dbVars

ImportRowFatal(trans) ==
    /\ InLoop
    /\ ~IsDuplicate(trans)
    /\ processed_transactions' = processed_transactions \cup {trans_key(trans)}
    /\ result' = [result EXCEPT
           !.errors = Append(@, [line |-> 0, error |-> "Erro fatal"])]
    /\ Rollback
    /\ Handled("trans", trans, "fatal")
    /\ pc' = "done"
    /\ UNCHANGED <<sessions, content, response, skip_duplicates,
                   create_missing_stocks>>

\* The final db.commit() after the last row.
ImportCommit ==
    /\ pc = "rows"
    /\ line_no = content.rows
    /\ session_ok
    /\ transactions' = transactions \o session_new
    /\ stocks' = stocks \cup session_stocks
    /\ session_new' = <<>>
    /\ session_stocks' = {}
    /\ result' = [result EXCEPT
           !.warnings = IF result.created_stocks # <<>>
                        THEN Append(@, [line |-> 0, warning |-> "Acoes criadas"])
                        ELSE @]
    /\ pc' = "done"
    /\ UNCHANGED <<sessions, content, portfolio, response, skip_duplicates,
                   create_missing_stocks,
                   line_no, row, processed_transactions, session_ok>>

ImportCommitFails ==
    /\ pc = "rows"
    /\ line_no = content.rows
    /\ result' = [result EXCEPT
           !.errors = Append(@, [line |-> 0, error |-> "Erro fatal"])]
    /\ Rollback
    /\ pc' = "done"
    /\ UNCHANGED <<sessions, content, response, skip_duplicates,
                   create_missing_stocks, line_no, row,
                   processed_transactions>>

\* import_transactions hands the result to the client; the request ends.
import_transactions ==
    /\ pc = "done"
    /\ pc' = "idle"
    /\ response' = "200"
    /\ result' = ImportResult
    /\ line_no' = 1
    /\ row' = NoRow
    /\ processed_transactions' = {}
    /\ skip_duplicates' = TRUE
    /\ create_missing_stocks' = TRUE
    /\ content' = NoContent
    /\ UNCHANGED <<dbVars, sessions, session_new, session_stocks, session_ok>>

\* ------------------------------------------------------------ cell parsers
\* None, as parse_type returns it; parse_ticker returns the empty text. A
\* Decimal is the text of its digits and its scale, 1234.56 being
\* <<"123456", 2>>, so the pair without digits stands for parse_price's None.
None == "None"
NoPrice == <<<<>>, 0>>

Digits == <<"0", "1", "2", "3", "4", "5", "6", "7", "8", "9">>

IsDigit(c) == \E i \in 1..Len(Digits) : Digits[i] = c

IsUpper(c) == \E i \in 1..Len(Upper) : Upper[i] = c

upper(c) ==
    IF \E i \in 1..Len(Lower) : Lower[i] = c
    THEN Upper[CHOOSE i \in 1..Len(Lower) : Lower[i] = c]
    ELSE c

\* s with the characters of set C removed: replace(c, '') and re.sub.
Without(s, C) == SelectSeq(s, LAMBDA c : c \notin C)

Count(s, c) == Len(SelectSeq(s, LAMBDA x : x = c))

\* s.rfind(c), counting from 1; 0 when c is not in s.
rfind(s, c) ==
    IF Count(s, c) = 0 THEN 0
    ELSE CHOOSE i \in 1..Len(s) :
             s[i] = c /\ \A j \in (i + 1)..Len(s) : s[j] # c

\* int() of a text of digits.
RECURSIVE ToInt(_)
ToInt(s) ==
    IF s = <<>> THEN 0
    ELSE 10 * ToInt(SubSeq(s, 1, Len(s) - 1))
         + (CHOOSE i \in 1..Len(Digits) : Digits[i] = s[Len(s)]) - 1

\* The digits of a number without its leading zeros.
RECURSIVE StripZeros(_)
StripZeros(s) ==
    IF Len(s) > 1 /\ Head(s) = "0" THEN StripZeros(Tail(s)) ELSE s

\* value.split()[0] of a text that does not start with a blank.
FirstWord(s) ==
    IF Count(s, " ") = 0 THEN s
    ELSE SubSeq(s, 1, (CHOOSE i \in 1..Len(s) :
                          s[i] = " " /\ \A j \in 1..(i - 1) : s[j] # " ") - 1)

\* [A-Z]{4}\d{1,2} at position i of s; the length of the match, 0 for none.
TickerAt(s, i) ==
    IF /\ i + 4 <= Len(s)
       /\ \A j \in i..(i + 3) : IsUpper(s[j])
       /\ IsDigit(s[i + 4])
    THEN IF i + 5 <= Len(s) /\ IsDigit(s[i + 5]) THEN 6 ELSE 5
    ELSE 0

\* re.match(r'^[A-Z]{4}\d{1,2}$', value)
IsTicker(s) == s # <<>> /\ TickerAt(s, 1) = Len(s)

\* re.search(r'([A-Z]{4}\d{1,2})', value): the leftmost match, <<>> for none.
SearchTicker(s) ==
    IF \E i \in 1..Len(s) : TickerAt(s, i) > 0
    THEN LET i == CHOOSE i \in 1..Len(s) :
                      TickerAt(s, i) > 0 /\ \A j \in 1..(i - 1) : TickerAt(s, j) = 0
         IN  SubSeq(s, i, i + TickerAt(s, i) - 1)
    ELSE <<>>

parse_ticker(value) ==
    IF value = <<>> THEN <<>>
    ELSE LET stripped == strip(value)
             upcased == [i \in 1..Len(stripped) |-> upper(stripped[i])]
             word == IF Count(upcased, " ") > 0 THEN FirstWord(upcased) ELSE upcased
             cut == IF word # <<>> /\ word[Len(word)] = "F" /\ Len(word) > 5
                    THEN SubSeq(word, 1, Len(word) - 1) ELSE word
         IN  IF IsTicker(cut) THEN cut
             ELSE IF SearchTicker(cut) # <<>> THEN SearchTicker(cut)
             ELSE cut

TYPE_MAPPINGS ==
    <<
     [type |-> "buy",
      keywords |-> <<
           <<"c">>,
           <<"c", "o", "m", "p", "r", "a">>,
           <<"b", "u", "y">>,
           <<"b">>,
           <<"a", "q", "u", "i", "s", "i", "c_cedilla", "a_tilde", "o">>,
           <<"a", "q", "u", "i", "s", "i", "c", "a", "o">>,
           <<"e", "n", "t", "r", "a", "d", "a">>,
           <<"c", "r", "e", "d", "i", "t", "o">>,
           <<"c", "r", "e_acute", "d", "i", "t", "o">>,
           <<"+">>>>],
     [type |-> "sell",
      keywords |-> <<
           <<"v">>,
           <<"v", "e", "n", "d", "a">>,
           <<"s", "e", "l", "l">>,
           <<"s">>,
           <<"a", "l", "i", "e", "n", "a", "c_cedilla", "a_tilde", "o">>,
           <<"a", "l", "i", "e", "n", "a", "c", "a", "o">>,
           <<"s", "a", "i_acute", "d", "a">>,
           <<"s", "a", "i", "d", "a">>,
           <<"d", "e_acute", "b", "i", "t", "o">>,
           <<"d", "e", "b", "i", "t", "o">>,
           <<"-">>>>]
    >>

\* The first trans_type, in the order of TYPE_MAPPINGS, one of whose
\* keywords is in the normalized value or has the normalized value in it.
TypeMatches(k, normalized) ==
    \E j \in 1..Len(TYPE_MAPPINGS[k].keywords) :
        \/ In(TYPE_MAPPINGS[k].keywords[j], normalized)
        \/ In(normalized, TYPE_MAPPINGS[k].keywords[j])

parse_type(value) ==
    IF value = <<>> THEN None
    ELSE LET normalized == normalize_string(value)
         IN  IF \E k \in 1..Len(TYPE_MAPPINGS) : TypeMatches(k, normalized)
             THEN TYPE_MAPPINGS[CHOOSE k \in 1..Len(TYPE_MAPPINGS) :
                      /\ TypeMatches(k, normalized)
                      /\ \A j \in 1..(k - 1) : ~TypeMatches(j, normalized)].type
             ELSE None

\* int(float(value)) of a text made of digits; 0 stands for None.
parse_quantity(value) ==
    IF value = <<>> THEN 0
    ELSE LET digits == Without(strip(value), {".", ",", " ", "+", "-"})
         IN  IF digits # <<>> /\ \A i \in 1..Len(digits) : IsDigit(digits[i])
             THEN ToInt(digits)
             ELSE 0

\* Decimal(value) of a text of digits, signs and points: the sign, the
\* digits and the number of digits after the point;
\* InvalidOperation for any other text.
Decimal(value) ==
    LET signed == value # <<>> /\ value[1] \in {"+", "-"}
        body == IF signed THEN Tail(value) ELSE value
        digits == Without(body, {"."})
    IN  IF /\ digits # <<>>
           /\ \A i \in 1..Len(digits) : IsDigit(digits[i])
           /\ Count(body, ".") <= 1
        THEN [valid |-> TRUE,
              negative |-> signed /\ value[1] = "-",
              digits |-> StripZeros(digits),
              scale |-> IF Count(body, ".") = 0 THEN 0
                        ELSE Len(body) - rfind(body, ".")]
        ELSE [valid |-> FALSE, negative |-> FALSE, digits |-> <<>>, scale |-> 0]

\* A reading that takes the comma for the decimal point whenever the cell
\* has both separators.
BrazilianAlways(value) == TRUE

\* value.rfind(',') > value.rfind('.')
Brazilian(value) == rfind(value, ",") > rfind(value, ".")

parse_price(value) ==
    IF value = <<>> THEN NoPrice
    ELSE LET bare == Without(strip(value), {"R", "$", " "})
             text == IF Count(bare, ",") > 0 /\ Count(bare, ".") > 0
                     THEN IF Brazilian(bare)
                          THEN [i \in 1..Len(Without(bare, {"."})) |->
                                   IF Without(bare, {"."})[i] = ","
                                   THEN "." ELSE Without(bare, {"."})[i]]
                          ELSE Without(bare, {","})
                     ELSE IF Count(bare, ",") > 0
                     THEN [i \in 1..Len(bare) |->
                              IF bare[i] = "," THEN "." ELSE bare[i]]
                     ELSE bare
             price == Decimal(text)
         IN  IF price.valid /\ ~price.negative /\ price.digits # <<"0">>
             THEN <<price.digits, price.scale>>
             ELSE NoPrice

\* ----------------------------------------------------- rows by their cells
\* A data row by its cells: the texts of the ticker, type, quantity and
\* price cells, and the date cell by the date parse_date reads from it
\* (NoDate when it reads none).
RawRow(ticker, type, quantity, price, date) ==
    [ticker |-> ticker, type |-> type, quantity |-> quantity,
     price |-> price, date |-> date]

\* get_value: the cell of the field, stripped.
get_value(cells, field) == strip(cells[field])

Pow10(n) == IF n = 0 THEN 1 ELSE IF n = 1 THEN 10 ELSE IF n = 2 THEN 100 ELSE 1000

\* The price in cents of a Decimal written with up to three fractional
\* digits.
Cents(price) ==
    IF price[2] <= PriceScale THEN ToInt(price[1]) * Pow10(PriceScale - price[2])
    ELSE ToInt(price[1]) \div Pow10(price[2] - PriceScale)

RowError(error) == [trans |-> NoTrans, error |-> error]

parse_row(cells) ==
    LET ticker == parse_ticker(get_value(cells, "ticker"))
        trans_type == parse_type(get_value(cells, "type"))
        quantity == parse_quantity(get_value(cells, "quantity"))
        price == parse_price(get_value(cells, "price"))
    IN  IF ticker = <<>> THEN RowError("Ticker nao encontrado ou invalido")
        ELSE IF trans_type = None THEN RowError("Tipo de operacao nao reconhecido")
        ELSE IF quantity = 0 THEN RowError("Quantidade invalida")
        ELSE IF price = NoPrice THEN RowError("Preco invalido")
        ELSE IF cells.date = NoDate THEN RowError("Data invalida")
        ELSE [trans |-> [ticker |-> ticker, type |-> trans_type,
                         quantity |-> quantity, price |-> Cents(price),
                         scale |-> price[2], date |-> cells.date,
                         raw_row |-> cells],
              error |-> "none"]

\* The ticker cells and the type cells of the files.
TickerCells ==
    {<<"W", "E", "G", "E", "3">>,
     <<"w", "e", "g", "e", "3">>,
     <<"W", "E", "G", "E", "3", "F">>,
     <<"W", "E", "G", "E", "3", " ", "O", "N", " ", "N", "M">>,
     <<"B", "O", "V", ".", "W", "E", "G", "E", "3">>,
     <<"X", "P", "T", "O">>,
     <<"3">>,
     <<>>}

TypeCells ==
    {<<"c">>,
     <<"C">>,
     <<"c", "o", "m", "p", "r", "a">>,
     <<"C", "o", "m", "p", "r", "a">>,
     <<"b", "u", "y">>,
     <<"B", "U", "Y">>,
     <<"b">>,
     <<"B">>,
     <<"+">>,
     <<"v">>,
     <<"V">>,
     <<"v", "e", "n", "d", "a">>,
     <<"V", "E", "N", "D", "A">>,
     <<"s", "e", "l", "l">>,
     <<"S", "e", "l", "l">>,
     <<"s">>,
     <<"S">>,
     <<"-">>,
     <<"C", "r", "e_acute", "d", "i", "t", "o">>,
     <<"d", "e_acute", "b", "i", "t", "o">>,
     <<"x">>,
     <<"h", "o", "l", "d">>,
     <<>>}

WEGE3 == <<"W", "E", "G", "E", "3">>

OneShare == <<"1">>
OneCent == <<"0", ",", "0", "1">>

\* Files whose rows differ in the ticker cell, and files whose rows differ
\* in the type cell.
TickerRows ==
    {RawRow(t, ty, OneShare, OneCent, d) :
        t \in TickerCells, ty \in {<<"C">>, <<"V">>}, d \in CsvDates}

TypeRows ==
    {RawRow(WEGE3, ty, OneShare, OneCent, d) : ty \in TypeCells, d \in CsvDates}

\* The tickers parse_row hands on for the ticker cells.
CellTickers == {parse_ticker(strip(t)) : t \in TickerCells} \ {<<>>}

\* The rows parse_row returns an error for, and the transactions it returns
\* for the others.
Unparsed(R) == {cells \in R : parse_row(cells).error # "none"}

Parsed(R) == {parse_row(cells).trans : cells \in R \ Unparsed(R)}

UnparsedTickerRows == Unparsed(TickerRows)
ParsedTickerRows == Parsed(TickerRows)
UnparsedTypeRows == Unparsed(TypeRows)
ParsedTypeRows == Parsed(TypeRows)

\* Price cells: groups of digits joined by points and commas, with or
\* without a currency symbol or a sign in front.
PriceGroups == {<<"0">>, <<"1">>, <<"2", "3", "4">>, <<"5", "6">>}

PricePrefixes == {<<>>, <<"R", "$", " ">>, <<"-">>}

RECURSIVE Grouped(_)
Grouped(n) ==
    IF n = 1 THEN PriceGroups
    ELSE {a \o s \o g : a \in Grouped(n - 1), s \in {<<".">>, <<",">>},
                        g \in PriceGroups}

PriceCells ==
    {<<>>} \cup {p \o b : p \in PricePrefixes,
                          b \in UNION {Grouped(n) : n \in 1..MaxGroups}}

\* parse_row returned an error for the row of these cells.
ImportUnparsedRow(cells) ==
    /\ InLoop
    /\ parse_row(cells).error # "none"
    /\ line_no' = LineNo
    /\ row' = [kind |-> "invalid", trans |-> NoTrans, outcome |-> "error",
               raw_row |-> cells]
    /\ result' = [result EXCEPT
           !.errors = Append(@, [line |-> LineNo, error |-> parse_row(cells).error]),
           !.error_count = @ + 1]
    /\ UNCHANGED <<dbVars, sessions, content, response, pc, skip_duplicates,
                   create_missing_stocks,
                   processed_transactions, session_new, session_stocks, session_ok>>

\* parse_row reading the price cell of a row.
PriceCellRead ==
    /\ row.kind = "cell"
    /\ row' = [row EXCEPT
           !.kind = "price",
           !.outcome = IF parse_price(get_value(row, "cell")) = NoPrice
                       THEN "error" ELSE "parsed",
           !.price = parse_price(get_value(row, "cell"))]
    /\ UNCHANGED <<dbVars, sessions, content, response, pc, skip_duplicates,
                   create_missing_stocks, line_no, result,
                   processed_transactions, session_new, session_stocks, session_ok>>

\* Calls of process_transaction through the create endpoint only.
NextProcess ==
    \/ \E t \in TransactionCreate : CreateTransactionUpTo(t, MaxCalls)
    \/ CreateTransactionFails
    \/ \E ticker \in Tickers : CreateTransactionNotFound(ticker)

\* The ledger endpoints, one request at a time.
Next ==
    \/ \E t \in TransactionCreate : CreateTransaction(t)
    \/ CreateTransactionFails
    \/ CreateTransactionCrashes
    \/ \E ticker \in Tickers : CreateTransactionNotFound(ticker)
    \/ \E n \in 1..MaxTx : delete_transaction(n)

\* Longer histories of one trade date, for the deletion of a transaction.
NextHistory ==
    \/ \E t \in TransactionCreate :
          t.date = 1 /\ CreateTransactionUpTo(t, MaxHistory)
    \/ \E n \in 1..MaxHistory : delete_transaction(n)

\* The import endpoint, one run at a time, over the rows of R, with a
\* storage that answers every statement.
ImportRun(R) ==
    \/ \E c \in Contents, sd \in BOOLEAN, cms \in BOOLEAN : ImportStart(c, sd, cms)
    \/ \E c \in Contents : ImportFatalInput(c)
    \/ ImportBlankRow
    \/ ImportInvalidRow
    \/ \E r \in R : ImportDuplicateRow(r)
    \/ \E r \in R : ImportRowApplied(r)
    \/ \E r \in R : ImportRowRejected(r)
    \/ ImportCommit
    \/ import_transactions

\* The same, with a storage that may fail a statement.
ImportRunFaults(R) ==
    \/ ImportRun(R)
    \/ \E r \in R : ImportRowStorageError(r)
    \/ \E r \in R : ImportRowFatal(r)
    \/ ImportCommitFails

NextImport == ImportRun(ParsedRows)

NextImportText == ImportRun(ParsedRowsText)

NextImportFaults == ImportRunFaults(ParsedRows)

\* Two create_transaction requests that may overlap.
NextConcurrentProcess ==
    \/ \E s \in Sessions, t \in ConcurrentRequests : SelectPortfolio(s, t, MaxCalls)
    \/ \E s \in Sessions : SelectPortfolioFails(s)
    \/ \E s \in Sessions : CommitTransaction(s)

\* Two requests, each a create_transaction or a delete_transaction, that may
\* overlap.
NextConcurrent ==
    \/ \E s \in Sessions, t \in SingleShareRequests : SelectPortfolio(s, t, MaxTx)
    \/ \E s \in Sessions : SelectPortfolioFails(s)
    \/ \E s \in Sessions : CommitTransaction(s)
    \/ \E s \in Sessions, n \in 1..MaxTx : DeleteCommit(s, n)
    \/ \E s \in Sessions : ReplaySelectTransactions(s)
    \/ \E s \in Sessions : ReplaySelectPortfolio(s)
    \/ \E s \in Sessions : ReplayCommit(s)

\* delete_transaction requests that may overlap, on a ledger written one
\* request at a time.
NextConcurrentDelete ==
    \/ \E t \in SingleShareRequests : CreateTransactionAlone(t)
    \/ \E s \in Sessions, n \in 1..MaxTx : DeleteCommit(s, n)
    \/ \E s \in Sessions : ReplaySelectTransactions(s)
    \/ \E s \in Sessions : ReplaySelectPortfolio(s)
    \/ \E s \in Sessions : ReplayCommit(s)

\* The ledger endpoints and replays of the ledger as it stands.
NextReplay ==
    \/ \E t \in TransactionCreate : CreateTransaction(t)
    \/ \E n \in 1..MaxTx : delete_transaction(n)
    \/ \E stock \in Tickers : ReplayAlone(stock)

\* The ledger endpoints, with requests that carry fees.
NextFees ==
    \/ \E t \in FeeRequests : CreateTransaction(t)
    \/ \E n \in 1..MaxTx : delete_transaction(n)

\* import_csv on files given by their header row, with rows that are blank
\* or do not parse.
NextDetect ==
    \/ pc = "idle" /\ \E c \in FileContents : ImportStart(c, TRUE, TRUE)
    \/ pc = "idle" /\ \E c \in FileContents : ImportFatalInput(c)
    \/ ImportBlankRow
    \/ ImportInvalidRow
    \/ ImportCommit
    \/ import_transactions

SpecProcess == Init /\ [][NextProcess]_vars
SpecConcurrentProcess == Init /\ [][NextConcurrentProcess]_vars
SpecConcurrent == Init /\ [][NextConcurrent]_vars
SpecConcurrentDelete == Init /\ [][NextConcurrentDelete]_vars
Spec == Init /\ [][Next]_vars
SpecHistory == Init /\ [][NextHistory]_vars
SpecReplay == Init /\ [][NextReplay]_vars
SpecFees == Init /\ [][NextFees]_vars
SpecImport == Init /\ [][NextImport]_vars
SpecImportText == Init /\ [][NextImportText]_vars
SpecImportFaults == Init /\ [][NextImportFaults]_vars
SpecDetect == Init /\ [][NextDetect]_vars

\* The row loop is sequential code: a run that can take a step takes it.
\* Rows of one share each: how a row ends depends on whether it parses, is a
\* duplicate, or is a sell no share covers, not on how many shares it names.
SingleShareRows == {r \in ParsedRows : r.quantity = 1}

NextImportFair == ImportRun(SingleShareRows)

SpecImportFair == Init /\ [][NextImportFair]_vars /\ WF_vars(NextImportFair)

\* The import over single-share rows, with a storage that may fail.
NextImportCounted == ImportRunFaults(SingleShareRows)

SpecImportCounted == Init /\ [][NextImportCounted]_vars

\* The import of files given by the cells of their rows. The stocks table
\* and the portfolio are keyed by the ticker texts parse_row hands on.
InitCells ==
    /\ stocks = {WEGE3}
    /\ transactions = <<>>
    /\ portfolio = [s \in CellTickers |-> <<>>]
    /\ response = "none"
    /\ pc = "idle"
    /\ skip_duplicates = TRUE
    /\ create_missing_stocks = TRUE
    /\ line_no = 1
    /\ row = NoRow
    /\ result = ImportResult
    /\ processed_transactions = {}
    /\ session_new = <<>>
    /\ session_stocks = {}
    /\ session_ok = TRUE
    /\ sessions = [s \in Sessions |-> NoRequest]
    /\ content = NoContent

ImportRunCells(unparsed, parsed) ==
    \/ \E c \in Contents, sd \in BOOLEAN, cms \in BOOLEAN : ImportStart(c, sd, cms)
    \/ \E c \in Contents : ImportFatalInput(c)
    \/ ImportBlankRow
    \/ \E cells \in unparsed : ImportUnparsedRow(cells)
    \/ \E r \in parsed : ImportDuplicateRow(r)
    \/ \E r \in parsed : ImportRowApplied(r)
    \/ \E r \in parsed : ImportRowRejected(r)
    \/ ImportCommit
    \/ import_transactions

NextTicker == ImportRunCells(UnparsedTickerRows, ParsedTickerRows)

NextType == ImportRunCells(UnparsedTypeRows, ParsedTypeRows)

\* A row whose price cell is any of the price cells, before parse_row.
InitPrice ==
    /\ stocks = STOCKS_B3
    /\ transactions = <<>>
    /\ portfolio = [s \in Tickers |-> <<>>]
    /\ response = "none"
    /\ pc = "idle"
    /\ skip_duplicates = TRUE
    /\ create_missing_stocks = TRUE
    /\ line_no = 1
    /\ row \in {[kind |-> "cell", trans |-> NoTrans, outcome |-> "none",
                 cell |-> cell, price |-> NoPrice] : cell \in PriceCells}
    /\ result = ImportResult
    /\ processed_transactions = {}
    /\ session_new = <<>>
    /\ session_stocks = {}
    /\ session_ok = TRUE
    /\ sessions = [s \in Sessions |-> NoRequest]
    /\ content = NoContent

NextPrice == PriceCellRead

SpecTicker == InitCells /\ [][NextTicker]_vars
SpecType == InitCells /\ [][NextType]_vars
SpecPrice == InitPrice /\ [][NextPrice]_vars

\* ================================================================ claims
Held(s) == portfolio[s][1]

Front(seq) == SubSeq(seq, 1, Len(seq) - 1)

Last(seq) == seq[Len(seq)]

RECURSIVE SumQuantity(_)
SumQuantity(seq) ==
    IF seq = <<>> THEN 0 ELSE SumQuantity(Front(seq)) + Last(seq).quantity

RECURSIVE SumValue(_)
SumValue(seq) ==
    IF seq = <<>> THEN 0
    ELSE SumValue(Front(seq)) + Last(seq).price * Last(seq).quantity

\* C1: after any sequence of successful process_transaction calls, the stored
\* Position's quantity and average cost are the ones the replay of the
\* stock's committed transactions in (date, id) order computes.
C1_PositionReproducible ==
    \A s \in Tickers :
        portfolio[s] # <<>> =>
            LET replayed == recalculate_portfolio_from_transactions(transactions, s)
            IN  /\ replayed # <<>>
                /\ replayed[1].quantity = Held(s).quantity
                /\ replayed[1].average_price = Held(s).average_price

\* C5: for buys only, from no Position, the stored quantity is the sum of
\* the bought quantities and the stored average cost is the exact quotient
\* sum(price * qty) / sum(qty), rounded once to cents.
C5_WeightedAverage ==
    \A s \in Tickers :
        LET h == OfStock(transactions, s)
        IN  (h # <<>> /\ \A k \in 1..Len(h) : h[k].type = "buy") =>
                /\ portfolio[s] # <<>>
                /\ Held(s).quantity = SumQuantity(h)
                /\ Held(s).average_price = NumericRound(SumValue(h), SumQuantity(h))

\* The step of process_transaction for a sell of less than the held quantity,
\* and the sell steps of the replay loop over the stock's ordered history.
C6_ProcessSell ==
    IF Len(transactions') = Len(transactions) + 1
    THEN LET t == Last(transactions')
         IN  (/\ t.type = "sell"
              /\ portfolio[t.stock] # <<>>
              /\ t.quantity < Held(t.stock).quantity) =>
                 /\ portfolio'[t.stock] # <<>>
                 /\ portfolio'[t.stock][1].average_price = Held(t.stock).average_price
                 /\ portfolio'[t.stock][1].quantity = Held(t.stock).quantity - t.quantity
    ELSE TRUE

C6_ReplaySell ==
    \A s \in Tickers :
        LET ordered == OrderByDateId(OfStock(transactions, s))
        IN  \A k \in 1..Len(ordered) :
                LET before == ReplayLoop(SubSeq(ordered, 1, k - 1))
                    after == ReplayLoop(SubSeq(ordered, 1, k))
                IN  (ordered[k].type = "sell" /\ ordered[k].quantity < before.quantity) =>
                        /\ after.quantity = before.quantity - ordered[k].quantity
                        /\ ReplayAverage(after) = ReplayAverage(before)
                        /\ after.total_cost[1] * before.total_cost[2] * before.quantity
                             = before.total_cost[1] * after.total_cost[2] * after.quantity

\* C6: a sell of k shares, 0 < k < held quantity, leaves the average cost as
\* it was and takes exactly k from the quantity: in the step of
\* process_transaction, and in the sell step of the replay loop at every
\* position of the stock's ordered history.
C6_SellKeepsAverage == []C6_ReplaySell /\ [][C6_ProcessSell]_vars

\* A partial sell has just been applied, and the replay of the history ends
\* with that partial sell.
C6_Witness ==
    /\ response = "201"
    /\ transactions # <<>>
    /\ LET t == Last(transactions)
           ordered == OrderByDateId(OfStock(transactions, t.stock))
       IN  /\ t.type = "sell"
           /\ Held(t.stock).quantity > 0
           /\ Last(ordered) = t
           /\ ReplayLoop(Front(ordered)).quantity > t.quantity

\* C7: deleting a transaction leaves the Position that the remaining
\* transactions of the stock give when applied in (date, id) order through
\* the Transaction Processor rules from the empty state.  Stated for the
\* remaining lists the processor accepts entirely.
C7_DeletionConsistency ==
    [][Len(transactions') < Len(transactions) =>
          \A s \in Tickers :
              LET f == ProcessorFold(OrderByDateId(OfStock(transactions', s)))
              IN  (f.ok /\ OfStock(transactions', s) # OfStock(transactions, s)) =>
                      portfolio'[s] = f.held]_vars

\* C8: every stored Position has quantity >= 0 and average cost >= 0.
C8_NonNegativePosition ==
    \A s \in Tickers :
        portfolio[s] # <<>> => Held(s).quantity >= 0 /\ Held(s).average_price >= 0

\* A step of the row loop that handled one more data row.
RowStep == pc = "rows" /\ line_no' = line_no + 1

StorageFailed(outcome) == outcome \in {"failed", "fatal"}

\* C2: an import run is atomic: nothing it does to the tables stocks,
\* transactions and portfolio is durable before the commit that follows the
\* last row, so the row loop leaves the committed tables as they were.
C2_ImportAtomic ==
    [][(pc = "rows" /\ pc' = "rows") =>
          /\ stocks' = stocks
          /\ transactions' = transactions
          /\ portfolio' = portfolio]_vars

\* C3: a Transaction record is committed only with the Position update it
\* implies: the committed transactions of a stock, in id order, are all
\* accepted by the Transaction Processor and give the committed Position, so
\* a sell rejected for insufficient shares leaves no committed record.
C3_RecordWithPosition ==
    \A s \in Tickers :
        LET f == ProcessorFold(OfStock(transactions, s))
        IN  f.ok /\ f.held = portfolio[s]

\* The sell asks for more shares than the stock's Position holds.
C4_Exceeds(trans) ==
    /\ trans.type = "sell"
    /\ portfolio[trans.ticker] = <<>> \/ Held(trans.ticker).quantity < trans.quantity

\* C4: a sell of more shares than the stock's Position holds (or without a
\* Position) fails with the insufficient-shares error and leaves the
\* Position as it was; the import run records it as a row error, counted in
\* error_count and not in success_count.
C4_InsufficientShares ==
    [][(/\ RowStep
        /\ row'.kind = "trans"
        /\ row'.outcome \in {"applied", "rejected"}
        /\ C4_Exceeds(row'.trans)) =>
          /\ row'.outcome = "rejected"
          /\ portfolio' = portfolio
          /\ transactions' = transactions
          /\ result'.error_count = result.error_count + 1
          /\ result'.success_count = result.success_count
          /\ Last(result'.errors) = [line |-> line_no', error |-> "ValueError"]]_vars

\* A sell was refused against an existing Position that holds less.
C4_Witness ==
    /\ pc = "rows"
    /\ row.kind = "trans"
    /\ row.outcome = "rejected"
    /\ row.trans.type = "sell"
    /\ portfolio[row.trans.ticker] # <<>>
    /\ Held(row.trans.ticker).quantity < row.trans.quantity
    /\ result.error_count >= 1

\* The duplicate key by value: the price without the scale of its text.
C9_ValueKey(key) == <<key[1], key[2], key[3], key[4][1], key[5]>>

C9_RepeatsEarlierRow(trans) ==
    \E key \in processed_transactions :
        C9_ValueKey(key) = C9_ValueKey(trans_key(trans))

\* C9: with skip_duplicates, a row with the ticker, operation kind, quantity,
\* price and date of an earlier row of the file is skipped: it adds one to
\* skipped_count and applies no transaction.
C9_DuplicateSkipped ==
    [][(/\ RowStep
        /\ skip_duplicates
        /\ row'.kind = "trans"
        /\ ~StorageFailed(row'.outcome)
        /\ C9_RepeatsEarlierRow(row'.trans)) =>
          /\ row'.outcome = "skipped"
          /\ result'.skipped_count = result.skipped_count + 1
          /\ result'.success_count = result.success_count
          /\ transactions' = transactions]_vars

\* C10: with create_missing_stocks = false, a row whose ticker is not a known
\* Stock is a row error: no Stock is created and no Transaction applied.
C10_MissingStockIsError ==
    [][(/\ RowStep
        /\ ~create_missing_stocks
        /\ row'.kind = "trans"
        /\ row'.outcome \notin {"skipped", "failed", "fatal"}
        /\ row'.trans.ticker \notin stocks \cup session_stocks) =>
          /\ result'.error_count = result.error_count + 1
          /\ result'.success_count = result.success_count
          /\ stocks' = stocks
          /\ session_stocks' = session_stocks
          /\ result'.created_stocks = result.created_stocks
          /\ transactions' = transactions
          /\ session_new' = session_new]_vars

\* The orders in which the transactions of a list can have been applied.
SerialOrders(seq) ==
    LET n == Len(seq)
        Orders == {f \in [1..n -> 1..n] : \A i, j \in 1..n : f[i] = f[j] => i = j}
    IN  {[i \in 1..n |-> seq[f[i]]] : f \in Orders}

Quiescent == \A s \in Sessions : Idle(s)

\* C11: overlapping process_transaction calls on one ticker are serialized:
\* once they have ended, the stock's Position is the one that applying its
\* committed transactions one after the other, in some order, gives.
C11_Serialized ==
    Quiescent =>
        \A stock \in Tickers :
            \E order \in SerialOrders(OfStock(transactions, stock)) :
                LET f == ProcessorFold(order)
                IN  f.ok /\ portfolio[stock] = f.held

\* The file has fewer than two rows, or no format resolves the five
\* required roles.
C12_Unreadable(c) == c.rows < 2 \/ ~(required \subseteq c.column_map)

\* C12: import_csv given such a file returns at once with success_count = 0
\* and an error message: it handles no data row, creates no Stock and
\* leaves the stored Transactions and Positions as they were.
C12_FatalInputReturns ==
    [][(pc = "idle" /\ pc' # "idle" /\ C12_Unreadable(content')) =>
          /\ pc' = "done"
          /\ result'.success_count = 0
          /\ Len(result'.errors) = 1
          /\ line_no' = 1
          /\ row' = NoRow
          /\ result'.created_stocks = <<>>
          /\ <<stocks', transactions', portfolio'>> = <<stocks, transactions, portfolio>>
          /\ <<session_new', session_stocks'>> = <<session_new, session_stocks>>]_vars

\* A file with an unmappable header was refused after an earlier run had
\* stored transactions.
C12_Witness ==
    /\ pc = "done"
    /\ content.rows >= 2
    /\ content.column_map = {}
    /\ result.errors # <<>>
    /\ transactions # <<>>

\* The row failed in a field parser or was refused by process_transaction.
C13_Failing(r) ==
    r.kind = "invalid" \/ (r.kind = "trans" /\ r.outcome = "rejected")

C13_OneError ==
    (RowStep /\ C13_Failing(row')) =>
        /\ pc' = "rows"
        /\ result'.error_count = result.error_count + 1
        /\ Len(result'.errors) = Len(result.errors) + 1
        /\ result'.success_count = result.success_count
        /\ result'.skipped_count = result.skipped_count

C13_ValidApplied ==
    (/\ RowStep
     /\ result.error_count > 0
     /\ row'.kind = "trans"
     /\ ~IsDuplicate(row'.trans)
     /\ Outcome(portfolio[row'.trans.ticker], AsTransaction(row'.trans)) = "ok") =>
        /\ row'.outcome = "applied"
        /\ result'.success_count = result.success_count + 1
        /\ Last(transactions') = AsTransaction(row'.trans)

\* C13: a failing row adds exactly one error message and one to error_count
\* and does not end the run: the loop goes on to the next row of the file,
\* a later valid row is applied, and the run ends after the last row.
C13_RowFailureContinues ==
    /\ [][C13_OneError /\ C13_ValidApplied]_vars
    /\ \A k \in 2..(MaxRows + 1) :
           (pc = "rows" /\ line_no = k /\ C13_Failing(row)) ~>
               (IF k < content.rows THEN pc = "rows" /\ line_no = k + 1
                ELSE pc = "done" /\ line_no = content.rows)

\* The row after a failing row was applied.
C13_Witness ==
    /\ pc = "rows"
    /\ line_no = 3
    /\ result.error_count = 1
    /\ row.kind = "trans"
    /\ row.outcome = "applied"

\* C14: a storage failure while a row is applied aborts the run: the loop
\* ends at that row, what the session holds is rolled back, and the failure
\* is one top-level fatal error message, not a row error.
C14_StorageFailureAborts ==
    [][(RowStep /\ StorageFailed(row'.outcome)) =>
          /\ pc' = "done"
          /\ result'.error_count = result.error_count
          /\ Len(result'.errors) = Len(result.errors) + 1
          /\ Last(result'.errors).line = 0
          /\ session_new' = <<>>
          /\ session_stocks' = {}]_vars

\* C15: when the replay runs for a ticker with no transaction left, a
\* Position row that exists is deleted (not kept at quantity 0), none is
\* created when none exists, and the replay returns no Position: the
\* request ends with 204 and the ticker has no row.
C15_ReplayOfNothing(s) ==
    LET r == sessions[s]
    IN  (r.op = "delete" /\ r.pc = "commit" /\ r.txs = <<>>
         /\ sessions'[s] = NoRequest) =>
            /\ portfolio'[r.t.stock] = <<>>
            /\ r.seen = <<>> => portfolio' = portfolio
            /\ response' = "204"

C15_EmptyReplayDeletes == [][\A s \in Sessions : C15_ReplayOfNothing(s)]_vars

\* One replay has deleted the row; the other, which also found no
\* transaction, finds no row either.
C15_Witness ==
    \E s \in Sessions :
        /\ sessions[s].op = "delete"
        /\ sessions[s].pc = "commit"
        /\ sessions[s].txs = <<>>
        /\ sessions[s].seen = <<>>
        /\ portfolio[sessions[s].t.stock] = <<>>
        /\ response = "204"

\* C16: a replay that follows a replay of the same, unchanged transactions
\* changes nothing: quantity, average cost and first-purchase date of the
\* Position are the ones the first replay left.
C16_ReplayIdempotent ==
    [][(response \in {"204", "replay"} /\ response' = "replay") =>
          /\ transactions' = transactions
          /\ portfolio' = portfolio]_vars

\* A replay has run on three decimals of average that the table stores as
\* two: the state a further replay starts from, and has to leave as it is.
C16_Witness ==
    /\ response = "replay"
    /\ Len(transactions) = MaxTx
    /\ \E stock \in stocks :
           /\ portfolio[stock] # <<>>
           /\ LET acc == ReplayLoop(OrderByDateId(OfStock(transactions, stock)))
              IN  /\ acc.quantity > 0
                  /\ portfolio[stock][1].average_price * acc.quantity * acc.total_cost[2]
                         # acc.total_cost[1]

\* C17: the fees of a transaction never influence the Position.  Every step
\* leaves the Position that the same step leaves when the fees of the
\* request and of every stored transaction are zero, both through
\* process_transaction and through the replay; so two histories that differ
\* only in fees stay equal in quantity and average cost step by step.
C17_NoFees(seq) == [i \in 1..Len(seq) |-> WithFees(seq[i], 0)]

C17_Process ==
    Len(transactions') = Len(transactions) + 1 =>
        LET t == Last(transactions')
        IN  portfolio' =
                [portfolio EXCEPT ![t.stock] = process_transaction(@, WithFees(t, 0))]

C17_Replay ==
    Len(transactions') = Len(transactions) - 1 =>
        \E n \in 1..Len(transactions) :
            /\ transactions' = RemoveAt(transactions, n)
            /\ portfolio' =
                   [portfolio EXCEPT ![transactions[n].stock] =
                       recalculate_portfolio_from_transactions(
                           C17_NoFees(transactions'), transactions[n].stock)]

C17_FeesIgnored == [][C17_Process /\ C17_Replay]_vars

\* A replay has folded a buy that carries a fee, which process_transaction
\* had applied before.
C17_Witness ==
    /\ response = "204"
    /\ transactions # <<>>
    /\ Last(transactions).type = "buy"
    /\ Last(transactions).fees > 0
    /\ portfolio[Last(transactions).stock] # <<>>

\* C18: every deletion through delete_transaction is followed by the replay
\* of the ticker: a delete_transaction that ends has run the replay to its
\* commit, and leaves the ticker with the Position that the replay computes
\* from the transactions it read, the deleted one not among them.
C18_Replayed(s) ==
    LET r == sessions[s]
        acc == ReplayLoop(r.txs)
    IN  (r.op = "delete" /\ sessions'[s].op = "none") =>
            /\ r.pc = "commit"
            /\ response' = "204"
            /\ portfolio'[r.t.stock] =
                   IF r.txs = <<>> THEN <<>>
                   ELSE <<Portfolio(acc.quantity, ReplayAverage(acc),
                                    acc.first_buy_date)>>

C18_DeletionReplays == [][\A s \in Sessions : C18_Replayed(s)]_vars

\* C19: for the stored transactions of a ticker taken in (trade date, id)
\* order, when every sell of the list is covered by the quantity held at
\* that point, the replay yields the quantity and the average cost that
\* folding the list through the Transaction Processor rules from the empty
\* Position yields, lists that close the position and re-open it included.
C19_ReplayIsFold ==
    \A stock \in stocks :
        LET ordered == OrderByDateId(OfStock(transactions, stock))
            fold == ProcessorFold(ordered)
            replayed == recalculate_portfolio_from_transactions(transactions, stock)
        IN  (ordered # <<>> /\ fold.ok) =>
                /\ replayed[1].quantity = fold.held[1].quantity
                /\ replayed[1].average_price = fold.held[1].average_price

\* C20: in every reachable state a buy that process_transaction applies to
\* an existing Position divides by a strictly positive new quantity: the
\* stored quantity plus the bought quantity is never zero or negative,
\* deletions followed by the replay included.
C20_PositiveDivisor ==
    \A t \in TransactionCreate :
        (t.type = "buy" /\ t.stock \in stocks /\ portfolio[t.stock] # <<>>) =>
            portfolio[t.stock][1].quantity + t.quantity > 0

\* C21: at most one Position row exists per ticker in every reachable state,
\* two first buys of the ticker in separate sessions included, so the
\* single-row lookup of process_transaction and of the replay never finds
\* more than one row.
C21_OneRowPerTicker ==
    \A stock \in Tickers : Len(portfolio[stock]) <= 1 /\ ~MultipleResultsFound(stock)

\* C22: a buy applied to a ticker whose Position is Closed (no Position row,
\* or a row left at quantity 0 by a full sell) sets the Position's
\* first-purchase date to the trade date of that buy.
C22_Closed(held) == held = <<>> \/ held[1].quantity = 0

C22_FirstPurchaseDate ==
    [][(Len(transactions') = Len(transactions) + 1
        /\ Last(transactions').type = "buy"
        /\ C22_Closed(portfolio[Last(transactions').stock])) =>
           portfolio'[Last(transactions').stock][1].first_buy_date
               = Last(transactions').date]_vars

\* C23: in every reachable state a Position of quantity 0 has average cost
\* 0: a sell that brings the quantity to 0 stores average 0, and so does a
\* replay of transactions that end at quantity 0.
C23_ClosedAverageZero ==
    \A stock \in Tickers :
        \A i \in 1..Len(portfolio[stock]) :
            portfolio[stock][i].quantity = 0 => portfolio[stock][i].average_price = 0

\* C24: duplicate detection does not survive an import run.  The keys a run
\* compares against are those of rows it handled itself; a row is skipped,
\* and counted in skipped_count, only when its key is among them; a row
\* whose key is not, is taken to process_transaction and applied when valid,
\* also when an equal transaction is already stored.
C24_KeysOfThisRun ==
    pc = "rows" => Cardinality(processed_transactions) <= line_no - 1

C24_SkipsRepeatsOnly ==
    (RowStep /\ row'.kind = "trans") =>
        LET repeat == skip_duplicates /\ trans_key(row'.trans) \in processed_transactions
            t == AsTransaction(row'.trans)
        IN  /\ row'.outcome = "skipped" <=> repeat
            /\ result'.skipped_count =
                   result.skipped_count + (IF repeat THEN 1 ELSE 0)
            /\ (~repeat /\ Outcome(portfolio[t.stock], t) = "ok") =>
                   /\ row'.outcome = "applied"
                   /\ Last(transactions') = t

C24_DuplicatesPerRun == []C24_KeysOfThisRun /\ [][C24_SkipsRepeatsOnly]_vars

\* The first row of a run is applied although the run before it stored an
\* equal transaction.
C24_Witness ==
    /\ pc = "rows"
    /\ skip_duplicates
    /\ line_no = 2
    /\ row.outcome = "applied"
    /\ result.success_count = 1
    /\ result.skipped_count = 0
    /\ Len(transactions) = 2
    /\ transactions[1] = transactions[2]

\* C25: detect_format_and_map_columns selects a format only if all five
\* required roles resolve to a header column; of the formats that qualify it
\* returns the mapping of the one that resolves most roles, the
\* first-declared one on equal scores; when no format qualifies the mapping
\* is empty and the import ends with the fatal error about the columns.
C25_Map(k, headers) == temp_map(COLUMN_MAPPINGS[k].mappings, headers)

C25_Selection(headers) ==
    LET maps == <<C25_Map(1, headers), C25_Map(2, headers), C25_Map(3, headers)>>
        score == [k \in 1..3 |-> Cardinality(DOMAIN maps[k])]
        qualifying == {k \in 1..3 : required \subseteq DOMAIN maps[k]}
        winner == CHOOSE k \in qualifying :
                      \A j \in qualifying :
                          score[k] > score[j] \/ (score[k] = score[j] /\ k <= j)
    IN  [qualifying |-> qualifying,
         ties |-> {k \in qualifying :
                      \E j \in qualifying :
                          j > k /\ score[j] = score[k] /\ maps[j] # maps[k]},
         winner |-> IF qualifying = {} THEN 0 ELSE winner,
         columns |-> IF qualifying = {} THEN [f \in {} |-> NoColumn]
                     ELSE maps[winner],
         format |-> IF qualifying = {} THEN "GENERIC"
                    ELSE ImportFormat(COLUMN_MAPPINGS[winner].format)]

C25_ColumnsError == <<[line |-> 0, error |-> "colunas obrigatorias"]>>

C25_FormatSelection ==
    (pc \in {"rows", "done"} /\ content.rows >= 2 /\ line_no = 1) =>
        LET selection == C25_Selection(content.headers)
        IN  /\ content.columns = selection.columns
            /\ content.format = selection.format
            /\ IF selection.qualifying = {}
               THEN /\ DOMAIN content.columns = {}
                    /\ pc = "done"
                    /\ result.errors = C25_ColumnsError
               ELSE /\ required \subseteq DOMAIN content.columns
                    /\ pc = "rows"
                    /\ result.errors = <<>>

\* Two formats qualify with the same score and different mappings, and the
\* run uses the mapping of the one declared first.
C25_Witness ==
    /\ pc = "rows"
    /\ line_no = 1
    /\ LET selection == C25_Selection(content.headers)
       IN  /\ selection.winner \in selection.ties
           /\ content.columns = selection.columns

\* C29: the mapping detect_format_and_map_columns returns is injective over
\* the required roles: no two of ticker, type, quantity, price and date
\* resolve to the same header column.
C29_InjectiveMapping ==
    pc \in {"rows", "done"} =>
        \A f, g \in required \cap DOMAIN content.columns :
            f # g => content.columns[f] # content.columns[g]

\* C28: in an import run that meets no fatal error, every non-blank data row
\* adds one to exactly one of success_count, error_count and skipped_count,
\* a blank row and the final commit add nothing, and the run starts with the
\* three counters at 0: their sum is the number of non-blank data rows.
C28_Counters(r) == <<r.success_count, r.error_count, r.skipped_count>>

C28_OneMore(r, s) ==
    \/ C28_Counters(s) = <<r.success_count + 1, r.error_count, r.skipped_count>>
    \/ C28_Counters(s) = <<r.success_count, r.error_count + 1, r.skipped_count>>
    \/ C28_Counters(s) = <<r.success_count, r.error_count, r.skipped_count + 1>>

C28_RowStep ==
    /\ (pc = "idle" /\ pc' = "rows") => C28_Counters(result') = <<0, 0, 0>>
    /\ (pc = "rows" /\ line_no' = line_no + 1 /\ row'.outcome # "fatal") =>
           IF row'.kind = "blank"
           THEN C28_Counters(result') = C28_Counters(result)
           ELSE C28_OneMore(result, result')
    /\ (pc = "rows" /\ line_no' = line_no /\ pc' = "done") =>
           C28_Counters(result') = C28_Counters(result)

C28_CountedOnce == [][C28_RowStep]_vars

\* A finished run over two data rows, the last one blank, the other counted.
C28_Witness ==
    /\ pc = "done"
    /\ content.rows = 3
    /\ line_no = 3
    /\ row.kind = "blank"
    /\ result.success_count + result.error_count + result.skipped_count = 1
    /\ \A i \in 1..Len(result.errors) : result.errors[i].line # 0

\* C26: parse_ticker returns a ticker in canonical form, four capital
\* letters followed by one or two digits, or fails: every ticker import_csv
\* creates a Stock for or applies a Transaction to has that form, and a row
\* whose ticker cell holds no such pattern ends as a row error.
C26_Canonical(t) ==
    /\ Len(t) \in {5, 6}
    /\ \A i \in 1..4 : IsUpper(t[i])
    /\ \A i \in 5..Len(t) : IsDigit(t[i])

C26_HasPattern(cell) ==
    \E i \in 1..Len(cell), n \in {5, 6} :
        /\ i + n - 1 <= Len(cell)
        /\ C26_Canonical([j \in 1..n |-> upper(cell[i + j - 1])])

C26_CanonicalTickers ==
    /\ \A i \in 1..Len(result.created_stocks) :
           C26_Canonical(result.created_stocks[i])
    /\ \A i \in 1..Len(transactions) : C26_Canonical(transactions[i].stock)
    /\ row.kind = "trans" =>
           /\ C26_Canonical(row.trans.ticker)
           /\ C26_HasPattern(row.trans.raw_row.ticker)

\* C27: parse_type reads each of c, compra, buy, b and + as a buy and each
\* of v, venda, sell, s and - as a sell, in any letter case, and fails for a
\* cell no keyword is part of and that is part of no keyword.
C27_Buy ==
    {<<"c">>, <<"c", "o", "m", "p", "r", "a">>, <<"b", "u", "y">>, <<"b">>,
     <<"+">>}

C27_Sell ==
    {<<"v">>, <<"v", "e", "n", "d", "a">>, <<"s", "e", "l", "l">>, <<"s">>,
     <<"-">>}

C27_Lowered(cell) == [i \in 1..Len(cell) |-> lower(cell[i])]

C27_Matches(cell) ==
    \E k \in 1..Len(TYPE_MAPPINGS) : TypeMatches(k, normalize_string(cell))

C27_Synonyms ==
    /\ row.kind = "trans" =>
           /\ C27_Lowered(row.trans.raw_row.type) \in C27_Buy =>
                  row.trans.type = "buy"
           /\ C27_Lowered(row.trans.raw_row.type) \in C27_Sell =>
                  row.trans.type = "sell"
           /\ C27_Matches(row.trans.raw_row.type)
    /\ row.kind = "invalid" =>
           C27_Lowered(row.raw_row.type) \notin C27_Buy \cup C27_Sell

\* C30: in a price cell that has both a point and a comma, parse_price takes
\* the separator that comes last for the decimal point and the earlier ones
\* for thousands separators, so 1.234,56 and 1,234.56 are both 1234.56; in a
\* cell that has commas only, the comma is the decimal point; a cell that
\* reads as no number or as a number that is not positive is rejected.
C30_Text(cell) == Without(cell, {"R", "$", " "})

C30_Point(text) ==
    IF rfind(text, ",") > rfind(text, ".") THEN rfind(text, ",")
    ELSE rfind(text, ".")

\* The text read with its last separator as the decimal point.
C30_Reading(text) ==
    <<StripZeros(Without(text, {".", ","})), Len(text) - C30_Point(text)>>

\* Digits around one decimal point, with separators of the other kind
\* before it, reading as a positive number.
C30_Number(text) ==
    /\ C30_Point(text) > 0
    /\ Count(text, text[C30_Point(text)]) = 1
    /\ \A i \in 1..Len(text) : IsDigit(text[i]) \/ text[i] \in {".", ","}
    /\ \E i \in 1..Len(text) : IsDigit(text[i]) /\ text[i] # "0"

C30_SeparatorOrder ==
    row.kind = "price" =>
        LET text == C30_Text(row.cell)
        IN  /\ Count(text, ",") > 0 =>
                   /\ row.price # NoPrice => row.price = C30_Reading(text)
                   /\ C30_Number(text) => row.price = C30_Reading(text)
            /\ row.cell \in {<<"1", ".", "2", "3", "4", ",", "5", "6">>,
                             <<"1", ",", "2", "3", "4", ".", "5", "6">>} =>
                   row.price = <<<<"1", "2", "3", "4", "5", "6">>, 2>>
            /\ row.price # NoPrice =>
                   /\ \E i \in 1..Len(row.price[1]) : row.price[1][i] # "0"
                   /\ \A i \in 1..Len(text) :
                          IsDigit(text[i]) \/ text[i] \in {".", ","}
            /\ (row.outcome = "error") = (row.price = NoPrice)

\* The cell 1,234.56 read as 1234.56.
C30_Witness ==
    /\ row.kind = "price"
    /\ row.cell = <<"1", ",", "2", "3", "4", ".", "5", "6">>
    /\ row.price = <<<<"1", "2", "3", "4", "5", "6">>, 2>>
    /\ row.outcome = "parsed"

====
